---- MODULE Spec2Model ----
(***************************************************************************)
(* Usage telemetry of the cloud-engineer agent: the circuit breaker, the   *)
(* monitored (fire-and-forget) dispatcher and the incident registry of     *)
(* src/agent/cost_modelling/monitored_agent.py, the token logger of        *)
(* token_logger.py, the usage store of dynamo_logger.py and the metrics    *)
(* buffer of cloudwatch_metrics.py.                                        *)
(***************************************************************************)
EXTENDS Integers, Sequences, FiniteSets, TLC

\* ---------------------------------------------------------------- bounds
MaxThreshold == 2
MaxTimeout == 2
MaxTime == 4
MaxCalls == 4
MaxStreak == 6
MaxPending == 2
MaxDepth == 3
TicksPerDay == 2
MaxRetention == 2
MaxPuts == 3
MaxRecords == 26
MaxSmallBatch == 2
MaxBuffer == 20
MaxKept == 25
MaxMetricOps == 2
MaxCustom == 1
MaxErrors == 1
TicksPerSecond == 2
MaxLimit == 3
MaxBuckets == 8
MaxForecastDays == 2

\* ------------------------------------------------------ program constants
DefaultFailureThreshold == 5
DefaultRecoveryTimeout == 60
DefaultTtlDays == 90
_batch_size == 25
_buffer_size == 20
MinBuckets == 7
ReportLimit == 10000

None == -1
Threads == {1, 2}
Sinks == {"metrics", "store"}
IncidentIds == {"INC-1", "INC-2", "INC-3"}
ErrorCodes == {"ThrottlingException", "Unknown"}

VARIABLES
    \* CircuitBreaker fields
    state, failure_count, last_failure_time, failure_threshold, recovery_timeout,
    \* wall clock read by time.time()
    now,
    \* threads inside CircuitBreaker.call
    callers, pc, seen, loaded, func_calls, started, running, consecutive, counted,
    \* MonitoredBedrockAgent / ResilientMonitoredAgent
    resilient, enabled, sink_up, cpc, loop_mode, outcome, model_error,
    log_entry, tasks, error_metric, down_streak,
    \* incident registry
    _active_incidents, scopes, last_exit, reentered,
    \* BedrockTokenLogger: the response of the last model call and its record
    response, usage_record, rec_outcome,
    \* TokenDynamoLogger: the table, the retention, the last log_token_usage
    table, ttl_days, put_record, put_run, after_first, puts, put_result,
    \* TokenDynamoLogger.batch_log_token_usage in progress
    usage_records, bi, items_buffer, success_count, batch_failure_count,
    unprocessed_items, written, batch_result,
    \* TokenMetricsLogger: the buffer and the backend calls of the last operation
    _metric_buffer, prev_buffer, put_calls, flush_result, last_op, customs, errors,
    \* the leading points of the buffer that put_metric_data has accepted, and
    \* those among them that the last operation sent again
    delivered, duplicates,
    \* TokenDynamoLogger.query_by_date_range: the last call and what it returned
    query_args, query_result,
    \* TokenDynamoLogger.cleanup_expired_data in progress and its answer
    current_time, scan_items, ci, delete_buffer, deleted_count, cleanup_result,
    table_before,
    \* LoggingConfig: the options of the last construction, what it gave, and
    \* the configuration the agent was built with
    config_options, config_outcome, config, config_errors, agent_config,
    \* CostAnalyzer.forecast_costs: the trend of the history, the call and its
    \* answer
    trends, forecast_days, forecasts, forecast_outcome,
    \* CostAnalyzer: the last daily report and the last threshold check
    report_args, report, check_result,
    \* threads inside TokenMetricsLogger: where each is, the operations it has
    \* made, its range(0, len, size) loop, the points appended and those passed
    \* to put_metric_data
    mpc, mops, mloop, appended, sent

breakerVars == <<state, failure_count, last_failure_time, failure_threshold,
                 recovery_timeout>>
callerVars == <<callers, pc, seen, loaded, func_calls, started, running, consecutive, counted>>
agentVars == <<resilient, enabled, sink_up, cpc, loop_mode, outcome, model_error,
               log_entry, tasks, error_metric, down_streak>>
incidentVars == <<_active_incidents, scopes, last_exit, reentered>>
recorderVars == <<response, usage_record, rec_outcome>>
putVars == <<table, ttl_days, put_record, put_run, after_first, puts, put_result>>
batchVars == <<usage_records, bi, items_buffer, success_count, batch_failure_count,
               unprocessed_items, written, batch_result>>
storeVars == <<putVars, batchVars>>
metricsVars == <<_metric_buffer, prev_buffer, put_calls, flush_result, last_op, customs,
                 errors, delivered, duplicates>>
queryVars == <<query_args, query_result>>
cleanupVars == <<current_time, scan_items, ci, delete_buffer, deleted_count,
                 cleanup_result, table_before>>
configVars == <<config_options, config_outcome, config, config_errors, agent_config>>
forecastVars == <<trends, forecast_days, forecasts, forecast_outcome>>
reportVars == <<report_args, report, check_result>>
metricThreadVars == <<mpc, mops, mloop, appended, sent>>
analyticsVars == <<queryVars, cleanupVars, configVars, forecastVars, reportVars,
                   metricThreadVars>>
vars == <<breakerVars, now, callerVars, agentVars, incidentVars, recorderVars,
          storeVars, metricsVars, analyticsVars>>

\* ================================================================
\* CircuitBreaker
\* ================================================================

\* CircuitBreaker.__init__: CLOSED, no failure seen.
BreakerInit(threshold, timeout) ==
    /\ failure_threshold = threshold
    /\ recovery_timeout = timeout
    /\ failure_count = 0
    /\ last_failure_time = None
    /\ state = "CLOSED"

_should_attempt_reset_eager(last, clock, timeout) ==
    TRUE

\* CircuitBreaker._should_attempt_reset
_should_attempt_reset(last, clock, timeout) ==
    IF last = None THEN TRUE ELSE clock - last >= timeout

_on_success_state_kept(st) ==
    st

\* CircuitBreaker._on_success: the state written at line 412.
_on_success_state(st) ==
    "CLOSED"

\* CircuitBreaker._on_failure, lines 420-421: the state after the count was
\* incremented.
_on_failure_state(st, count, threshold) ==
    IF count >= threshold THEN "OPEN" ELSE st

InCall == {"invoke", "on_success", "on_failure_load", "on_failure_store", "on_failure_trip"}

\* call, line 385: the caller reads self.state.
call_enter(t) ==
    /\ t \in callers
    /\ pc[t] = "idle"
    /\ started < MaxCalls
    /\ started' = started + 1
    /\ seen' = [seen EXCEPT ![t] = state]
    /\ pc' = [pc EXCEPT ![t] = IF state = "OPEN" THEN "reset_check" ELSE "invoke"]
    /\ UNCHANGED <<breakerVars, now, callers, loaded, func_calls, running,
                   consecutive, counted, agentVars, incidentVars,
                   recorderVars, storeVars, metricsVars,
                   analyticsVars>>

\* call, lines 386-390: HALF_OPEN when the recovery timeout has elapsed,
\* otherwise the call returns None without running func.
call_reset_check(t) ==
    /\ pc[t] = "reset_check"
    /\ IF _should_attempt_reset(last_failure_time, now, recovery_timeout)
         THEN /\ state' = "HALF_OPEN"
              /\ pc' = [pc EXCEPT ![t] = "invoke"]
         ELSE /\ state' = state
              /\ pc' = [pc EXCEPT ![t] = "idle"]
    /\ UNCHANGED <<failure_count, last_failure_time, failure_threshold,
                   recovery_timeout, now, callers, seen, loaded, func_calls, started,
                   running, consecutive, counted, agentVars, incidentVars,
                   recorderVars, storeVars, metricsVars,
                   analyticsVars>>

\* call, line 393: func starts executing.
call_invoke(t) ==
    /\ pc[t] = "invoke"
    /\ t \notin running
    /\ running' = running \cup {t}
    /\ func_calls' = func_calls + 1
    /\ UNCHANGED <<breakerVars, now, callers, seen, pc, loaded, started, consecutive,
                   counted, agentVars, incidentVars,
                   recorderVars, storeVars, metricsVars,
                   analyticsVars>>

\* call, lines 393-397: func returns (ok) or raises.
call_func_returns(t, ok) ==
    /\ pc[t] = "invoke"
    /\ t \in running
    /\ running' = running \ {t}
    /\ pc' = [pc EXCEPT ![t] = IF ok THEN "on_success" ELSE "on_failure_load"]
    /\ consecutive' = IF ok THEN 0 ELSE consecutive + 1
    /\ UNCHANGED <<breakerVars, now, callers, seen, loaded, func_calls, started, counted,
                   agentVars, incidentVars,
                   recorderVars, storeVars, metricsVars,
                   analyticsVars>>

\* _on_success, lines 411-412, then call returns the result.
call_on_success(t) ==
    /\ pc[t] = "on_success"
    /\ failure_count' = 0
    /\ state' = _on_success_state(state)
    /\ counted' = 0
    /\ pc' = [pc EXCEPT ![t] = "idle"]
    /\ UNCHANGED <<last_failure_time, failure_threshold, recovery_timeout, now,
                   callers, seen, loaded, func_calls, started, running, consecutive,
                   agentVars, incidentVars,
                   recorderVars, storeVars, metricsVars,
                   analyticsVars>>

\* _on_failure, line 417: the read half of self.failure_count += 1.
call_on_failure_load(t) ==
    /\ pc[t] = "on_failure_load"
    /\ loaded' = [loaded EXCEPT ![t] = failure_count]
    /\ pc' = [pc EXCEPT ![t] = "on_failure_store"]
    /\ UNCHANGED <<breakerVars, now, callers, seen, func_calls, started, running,
                   consecutive, counted, agentVars, incidentVars,
                   recorderVars, storeVars, metricsVars,
                   analyticsVars>>

\* _on_failure, lines 417-418: the write half of += and last_failure_time.
call_on_failure_store(t) ==
    /\ pc[t] = "on_failure_store"
    /\ failure_count' = loaded[t] + 1
    /\ last_failure_time' = now
    /\ counted' = counted + 1
    /\ pc' = [pc EXCEPT ![t] = "on_failure_trip"]
    /\ UNCHANGED <<state, failure_threshold, recovery_timeout, now, callers, seen, loaded,
                   func_calls, started, running, consecutive, agentVars, incidentVars,
                   recorderVars, storeVars, metricsVars,
                   analyticsVars>>

\* _on_failure, lines 420-422, then call returns None.
call_on_failure_trip(t) ==
    /\ pc[t] = "on_failure_trip"
    /\ state' = _on_failure_state(state, failure_count, failure_threshold)
    /\ pc' = [pc EXCEPT ![t] = "idle"]
    /\ UNCHANGED <<failure_count, last_failure_time, failure_threshold,
                   recovery_timeout, now, callers, seen, loaded, func_calls, started,
                   running, consecutive, counted, agentVars, incidentVars,
                   recorderVars, storeVars, metricsVars,
                   analyticsVars>>

\* time.time() advances.
Tick ==
    /\ now < MaxTime
    /\ now' = now + 1
    /\ UNCHANGED <<breakerVars, callerVars, agentVars, incidentVars,
                   recorderVars, storeVars, metricsVars,
                   analyticsVars>>

\* ---------------------------------------------------------------- frames
NoCounts == <<>>
NoResponse == [received |-> FALSE, usage |-> NoCounts, meta_usage |-> NoCounts, headers |-> NoCounts,
               body |-> "absent", body_usage |-> NoCounts]
NoTimestamp == [t |-> None, valid |-> FALSE]
NoRecord == [timestamp |-> NoTimestamp, agent_id |-> "none", model_id |-> "none",
             input_tokens |-> 0, output_tokens |-> 0, total_tokens |-> 0,
             estimated_cost |-> 0]

NoCalls == [s \in Sinks |-> "none"]
FreeTask == [current |-> FALSE, status |-> "free", blocking |-> FALSE, calls |-> NoCalls]

AgentIdle ==
    /\ resilient = FALSE
    /\ enabled = [token |-> TRUE, metrics |-> TRUE, store |-> TRUE]
    /\ sink_up = [s \in Sinks |-> TRUE]
    /\ cpc = "idle"
    /\ loop_mode = "running"
    /\ outcome = "none"
    /\ model_error = "none"
    /\ log_entry = FALSE
    /\ tasks = [k \in 1..MaxPending |-> FreeTask]
    /\ error_metric = "none"
    /\ down_streak = 0

\* No model call made yet through the token logger.
RecorderIdle ==
    /\ response = NoResponse
    /\ usage_record = NoRecord
    /\ rec_outcome = "none"

\* TokenDynamoLogger.__init__ with a retention of days: an empty table, no
\* call made yet.
StoreInit(days) ==
    /\ table = {}
    /\ ttl_days = days
    /\ put_record = NoRecord
    /\ put_run = 0
    /\ after_first = {}
    /\ puts = 0
    /\ put_result = "none"
    /\ usage_records = <<>>
    /\ bi = 0
    /\ items_buffer = <<>>
    /\ success_count = 0
    /\ batch_failure_count = 0
    /\ unprocessed_items = <<>>
    /\ written = {}
    /\ batch_result = "none"

StoreIdle == StoreInit(DefaultTtlDays)

MetricsIdle ==
    /\ _metric_buffer = <<>>
    /\ prev_buffer = <<>>
    /\ put_calls = <<>>
    /\ flush_result = "none"
    /\ last_op = "none"
    /\ customs = 0
    /\ errors = 0
    /\ delivered = 0
    /\ duplicates = 0

NoQuery == [start |-> None, end |-> None, agent_id |-> "", limit |-> 0,
            answered |-> FALSE, store |-> {}]

QueryIdle ==
    /\ query_args = NoQuery
    /\ query_result = <<>>

NoCleanup == [done |-> FALSE, deleted_count |-> 0, error |-> FALSE]

CleanupIdle ==
    /\ current_time = None
    /\ scan_items = <<>>
    /\ ci = 0
    /\ delete_buffer = <<>>
    /\ deleted_count = 0
    /\ cleanup_result = NoCleanup
    /\ table_before = {}

NoConfig ==
    [retention_days |-> None, log_retention_days |-> None, batch_size |-> None,
     flush_interval_seconds |-> None, circuit_breaker_failure_threshold |-> None,
     circuit_breaker_recovery_timeout |-> None, daily_cost_threshold |-> None,
     hourly_cost_threshold |-> None, aws_region |-> "", dynamodb_table_name |-> "",
     cloudwatch_namespace |-> ""]

ConfigIdle ==
    /\ config_options = NoConfig
    /\ config_outcome = "none"
    /\ config = NoConfig
    /\ config_errors = <<>>
    /\ agent_config = NoConfig

NoTrends == [raised |-> FALSE, costs |-> <<>>]

ForecastIdle ==
    /\ trends = NoTrends
    /\ forecast_days = 0
    /\ forecasts = <<>>
    /\ forecast_outcome = "none"

NoReportArgs == [called |-> FALSE, date |-> None, agent_ids |-> {}, store |-> {}]
NoBreakdown == [k \in {} |-> 0]
NoReport ==
    [total_cost |-> 0, total_tokens |-> 0, total_requests |-> 0,
     average_cost_per_request |-> 0, average_tokens_per_request |-> 0,
     by_agent |-> NoBreakdown, by_model |-> NoBreakdown, by_hour |-> NoBreakdown]
NoCheck ==
    [done |-> FALSE, date |-> None, clock |-> None, store |-> {},
     daily_threshold_exceeded |-> FALSE, hourly_threshold_exceeded |-> FALSE,
     daily_cost |-> 0, current_hour_cost |-> 0, alert_required |-> FALSE]

ReportIdle ==
    /\ report_args = NoReportArgs
    /\ report = NoReport
    /\ check_result = NoCheck

MetricThreadsIdle ==
    /\ mpc = [t \in Threads |-> "idle"]
    /\ mops = [t \in Threads |-> 0]
    /\ mloop = [t \in Threads |-> [n |-> 0, i |-> 0]]
    /\ appended = {}
    /\ sent = {}

AnalyticsIdle ==
    /\ QueryIdle
    /\ CleanupIdle
    /\ ConfigIdle
    /\ ForecastIdle
    /\ ReportIdle
    /\ MetricThreadsIdle

IncidentIdle ==
    /\ _active_incidents = <<>>
    /\ scopes = <<>>
    /\ last_exit = "none"
    /\ reentered = FALSE

CallersIdle(cs) ==
    /\ callers = cs
    /\ pc = [t \in Threads |-> "idle"]
    /\ seen = [t \in Threads |-> "CLOSED"]
    /\ loaded = [t \in Threads |-> 0]
    /\ func_calls = 0
    /\ started = 0
    /\ running = {}
    /\ consecutive = 0
    /\ counted = 0

\* ------------------------------------------------- breaker specifications
InitBreaker ==
    /\ \E th \in 1..MaxThreshold, to \in 1..MaxTimeout : BreakerInit(th, to)
    /\ now = 0
    /\ CallersIdle({1})
    /\ AgentIdle
    /\ IncidentIdle
    /\ RecorderIdle
    /\ StoreIdle
    /\ MetricsIdle
    /\ AnalyticsIdle

InitBreakerConc ==
    /\ \E th \in 1..MaxThreshold, to \in 1..MaxTimeout : BreakerInit(th, to)
    /\ now = 0
    /\ CallersIdle(Threads)
    /\ AgentIdle
    /\ IncidentIdle
    /\ RecorderIdle
    /\ StoreIdle
    /\ MetricsIdle
    /\ AnalyticsIdle

NextBreaker ==
    \/ \E t \in Threads : call_enter(t)
    \/ \E t \in Threads : call_reset_check(t)
    \/ \E t \in Threads : call_invoke(t)
    \/ \E t \in Threads, ok \in BOOLEAN : call_func_returns(t, ok)
    \/ \E t \in Threads : call_on_success(t)
    \/ \E t \in Threads : call_on_failure_load(t)
    \/ \E t \in Threads : call_on_failure_store(t)
    \/ \E t \in Threads : call_on_failure_trip(t)
    \/ Tick

SpecBreaker == InitBreaker /\ [][NextBreaker]_vars
SpecBreakerConc == InitBreakerConc /\ [][NextBreaker]_vars

\* ================================================================
\* MonitoredBedrockAgent and ResilientMonitoredAgent
\* ================================================================
Configs == [token : BOOLEAN, metrics : BOOLEAN, store : BOOLEAN]
LoopModes == {"running", "stopped", "no_loop"}
Returned == {"idle", "returned", "raised"}

\* __init__, lines 50-64: a sink exists when its toggle is on.
SinkEnabled(s) == IF s = "metrics" THEN enabled.metrics ELSE enabled.store

\* The slot taken by the next coroutine.
FreeSlots == {k \in 1..MaxPending : tasks[k].status \in {"free", "finished"}}
NextSlot == CHOOSE k \in FreeSlots : \A j \in FreeSlots : k <= j

raised_error_masked(code, has_metrics, metric_fails) ==
    IF has_metrics /\ metric_fails THEN "MetricError" ELSE code

\* invoke_model_with_logging, lines 243-257: the error metric is emitted inside
\* its own try/except and the bare raise re-raises the model's error.
raised_error(code, has_metrics, metric_fails) ==
    code

_async_log_usage_raises_sink_error(calls) ==
    \E s \in Sinks : calls[s] = "failed"

\* _async_log_usage, lines 111-114, over _async_cloudwatch_log / _async_dynamo_log
\* (lines 134-135, 155-156) and the sinks' own handlers: gather collects with
\* return_exceptions and every layer catches Exception, so nothing is raised.
_async_log_usage_raises(calls) ==
    FALSE

\* cloudwatch_metrics.log_token_usage / dynamo_logger.log_token_usage run in
\* the executor: the backend error is caught inside the sink (put_item gives
\* False), so the call completes either way.
sink_call_result(s, up) ==
    IF up THEN "ok" ELSE "failed"

\* Tasks of earlier invocations no longer belong to the latest one.
Older(ts) == [k \in 1..MaxPending |-> [ts[k] EXCEPT !.current = FALSE]]

\* invoke_model_with_logging, lines 204-241, the wrapped model call succeeds:
\* without a token logger the bare client is called, otherwise the response
\* carries the usage record (token_logging).
invoke_model_ok(mode) ==
    /\ cpc \in Returned
    /\ down_streak < MaxStreak
    /\ FreeSlots # {}
    /\ model_error' = "none"
    /\ error_metric' = "none"
    /\ tasks' = Older(tasks)
    /\ IF enabled.token
         THEN /\ log_entry' = TRUE
              /\ cpc' = "fire"
              /\ outcome' = "none"
              /\ loop_mode' = mode
         ELSE /\ log_entry' = FALSE
              /\ cpc' = "returned"
              /\ outcome' = "response"
              /\ loop_mode' = loop_mode
    /\ UNCHANGED <<breakerVars, now, callerVars, resilient, enabled, sink_up,
                   down_streak, incidentVars,
                   recorderVars, storeVars, metricsVars,
                   analyticsVars>>

\* invoke_model_with_logging, lines 211 and 243-257 (invoke_with_logging lines
\* 230-262 re-raise): the wrapped model call fails with code; log_error_metric
\* is tried when a metrics logger exists.
invoke_model_fails(code, metric_fails) ==
    /\ cpc \in Returned
    /\ model_error' = code
    /\ log_entry' = FALSE
    /\ cpc' = "raised"
    /\ tasks' = Older(tasks)
    /\ IF enabled.token
         THEN /\ outcome' = raised_error(code, enabled.metrics, metric_fails)
              /\ error_metric' = IF ~enabled.metrics THEN "none"
                                 ELSE IF metric_fails THEN "failed" ELSE "sent"
         ELSE /\ outcome' = code
              /\ error_metric' = "none"
    /\ UNCHANGED <<breakerVars, now, callerVars, resilient, enabled, sink_up,
                   loop_mode, down_streak, incidentVars,
                   recorderVars, storeVars, metricsVars,
                   analyticsVars>>

\* _fire_and_forget_logging, lines 165-181, then line 241: with a running loop
\* the coroutine becomes a task and the response is returned; otherwise
\* asyncio.run (or run_until_complete on a new loop) runs it to completion.
_fire_and_forget_logging ==
    /\ cpc = "fire"
    /\ tasks' = [tasks EXCEPT ![NextSlot] =
                    [current |-> TRUE, status |-> "scheduled",
                     blocking |-> (loop_mode # "running"), calls |-> NoCalls]]
    /\ IF loop_mode = "running"
         THEN cpc' = "returned" /\ outcome' = "response"
         ELSE cpc' = "blocked" /\ outcome' = outcome
    /\ UNCHANGED <<breakerVars, now, callerVars, resilient, enabled, sink_up,
                   loop_mode, model_error, log_entry, error_metric, down_streak,
                   incidentVars,
                   recorderVars, storeVars, metricsVars,
                   analyticsVars>>

\* _fire_and_forget_logging, lines 172 / 178-179 return, then line 241.
return_after_run ==
    /\ cpc = "blocked"
    /\ \E k \in 1..MaxPending :
        /\ tasks[k].current
        /\ tasks[k].status = "finished"
        /\ IF _async_log_usage_raises(tasks[k].calls)
             THEN cpc' = "raised" /\ outcome' = "LoggingError"
             ELSE cpc' = "returned" /\ outcome' = "response"
    /\ UNCHANGED <<breakerVars, now, callerVars, resilient, enabled, sink_up,
                   loop_mode, model_error, log_entry, tasks, error_metric,
                   down_streak, incidentVars,
                   recorderVars, storeVars, metricsVars,
                   analyticsVars>>

\* The loop can run task k: it is the coroutine being run to completion, or
\* the caller has yielded to its running loop.
LoopRuns(k) == tasks[k].blocking \/ cpc \in Returned

\* MonitoredBedrockAgent._async_log_usage, lines 89-111: one task per enabled
\* sink, each handing the sink call to the executor, then gather.
_async_log_usage(k) ==
    /\ ~resilient
    /\ tasks[k].status = "scheduled"
    /\ LoopRuns(k)
    /\ tasks' = [tasks EXCEPT ![k] =
                    [@ EXCEPT !.calls = [s \in Sinks |->
                                            IF SinkEnabled(s) THEN "inflight" ELSE "none"],
                              !.status = IF \E s \in Sinks : SinkEnabled(s)
                                           THEN "gathering" ELSE "finished"]]
    /\ UNCHANGED <<breakerVars, now, callerVars, resilient, enabled, sink_up, cpc,
                   loop_mode, outcome, model_error, log_entry, error_metric,
                   down_streak, incidentVars,
                   recorderVars, storeVars, metricsVars,
                   analyticsVars>>

\* ResilientMonitoredAgent._async_log_usage, lines 434-441, with
\* CircuitBreaker.call lines 385-399: func is the parent's coroutine function,
\* so calling it only builds a coroutine object; it cannot raise, _on_success
\* runs, and the coroutine returned is never awaited.
resilient_async_log_usage(k) ==
    /\ resilient
    /\ tasks[k].status = "scheduled"
    /\ LoopRuns(k)
    /\ tasks' = [tasks EXCEPT ![k].status = "finished"]
    /\ IF state = "OPEN" /\ ~_should_attempt_reset(last_failure_time, now, recovery_timeout)
         THEN UNCHANGED <<state, failure_count>>
         ELSE /\ failure_count' = 0
              /\ state' = _on_success_state(state)
    /\ down_streak' = IF \E s \in Sinks : SinkEnabled(s) /\ ~sink_up[s]
                        THEN down_streak + 1 ELSE 0
    /\ UNCHANGED <<last_failure_time, failure_threshold, recovery_timeout, now,
                   callerVars, resilient, enabled, sink_up, cpc, loop_mode,
                   outcome, model_error, log_entry, error_metric, incidentVars,
                   recorderVars, storeVars, metricsVars,
                   analyticsVars>>

\* _async_cloudwatch_log / _async_dynamo_log, lines 126-156: the executor
\* finishes the sink's log_token_usage.
sink_call_completes(k, s) ==
    /\ tasks[k].calls[s] = "inflight"
    /\ tasks' = [tasks EXCEPT ![k].calls[s] = sink_call_result(s, sink_up[s])]
    /\ UNCHANGED <<breakerVars, now, callerVars, resilient, enabled, sink_up, cpc,
                   loop_mode, outcome, model_error, log_entry, error_metric,
                   down_streak, incidentVars,
                   recorderVars, storeVars, metricsVars,
                   analyticsVars>>

\* _async_log_usage, line 111: gather returns once every sink task is done.
gather_done(k) ==
    /\ tasks[k].status = "gathering"
    /\ LoopRuns(k)
    /\ \A s \in Sinks : tasks[k].calls[s] # "inflight"
    /\ tasks' = [tasks EXCEPT ![k].status = "finished"]
    /\ UNCHANGED <<breakerVars, now, callerVars, resilient, enabled, sink_up, cpc,
                   loop_mode, outcome, model_error, log_entry, error_metric,
                   down_streak, incidentVars,
                   recorderVars, storeVars, metricsVars,
                   analyticsVars>>

\* A sink's backend goes down or comes back.
sink_flip(s) ==
    /\ sink_up' = [sink_up EXCEPT ![s] = ~@]
    /\ UNCHANGED <<breakerVars, now, callerVars, resilient, enabled, cpc, loop_mode,
                   outcome, model_error, log_entry, tasks, error_metric,
                   down_streak, incidentVars,
                   recorderVars, storeVars, metricsVars,
                   analyticsVars>>

\* __init__ of either agent class (lines 42-67, 430-432): the resilient agent's
\* breaker is built with the defaults of CircuitBreaker.__init__.
Init ==
    /\ BreakerInit(DefaultFailureThreshold, DefaultRecoveryTimeout)
    /\ now = 0
    /\ CallersIdle({})
    /\ resilient \in BOOLEAN
    /\ enabled \in Configs
    /\ sink_up \in [Sinks -> BOOLEAN]
    /\ cpc = "idle"
    /\ loop_mode = "running"
    /\ outcome = "none"
    /\ model_error = "none"
    /\ log_entry = FALSE
    /\ tasks = [k \in 1..MaxPending |-> FreeTask]
    /\ error_metric = "none"
    /\ down_streak = 0
    /\ IncidentIdle
    /\ RecorderIdle
    /\ StoreIdle
    /\ MetricsIdle
    /\ AnalyticsIdle

Next ==
    \/ \E mode \in LoopModes : invoke_model_ok(mode)
    \/ \E code \in ErrorCodes, metric_fails \in BOOLEAN : invoke_model_fails(code, metric_fails)
    \/ _fire_and_forget_logging
    \/ return_after_run
    \/ \E k \in 1..MaxPending : _async_log_usage(k)
    \/ \E k \in 1..MaxPending : resilient_async_log_usage(k)
    \/ \E k \in 1..MaxPending, s \in Sinks : sink_call_completes(k, s)
    \/ \E k \in 1..MaxPending : gather_done(k)
    \/ \E s \in Sinks : sink_flip(s)

Spec == Init /\ [][Next]_vars


\* ================================================================
\* incident_context
\* ================================================================
Range(q) == {q[i] : i \in 1..Len(q)}

\* A registry without the entry of id.
Without(reg, id) == [i \in (DOMAIN reg) \ {id} |-> reg[i]]

registry_after_exit_leaky(reg, id, raises) ==
    IF raises THEN reg ELSE Without(reg, id)

\* incident_context, lines 279-282: the finally block runs on return and on
\* raise alike and deletes the id when it is registered.
registry_after_exit(reg, id, raises) ==
    IF id \in DOMAIN reg THEN Without(reg, id) ELSE reg

\* get_active_incidents, line 291: a copy of the registry.
get_active_incidents == _active_incidents

\* incident_context, lines 272-278: the id is registered with its start time
\* (overwriting an entry of the same id) and the block is entered.
incident_enter(id) ==
    /\ Len(scopes) < MaxDepth
    /\ _active_incidents' = [i \in (DOMAIN _active_incidents) \cup {id} |->
                                IF i = id THEN now ELSE _active_incidents[i]]
    /\ scopes' = Append(scopes, id)
    /\ reentered' = (reentered \/ id \in Range(scopes))
    /\ UNCHANGED <<breakerVars, now, callerVars, agentVars, last_exit,
                   recorderVars, storeVars, metricsVars,
                   analyticsVars>>

\* incident_context, lines 278-282: the innermost block ends, by return or by
\* an exception of the wrapped work.
incident_exit(raises) ==
    /\ scopes # <<>>
    /\ _active_incidents' =
          registry_after_exit(_active_incidents, scopes[Len(scopes)], raises)
    /\ scopes' = SubSeq(scopes, 1, Len(scopes) - 1)
    /\ last_exit' = IF raises THEN "raise" ELSE "return"
    /\ UNCHANGED <<breakerVars, now, callerVars, agentVars, reentered,
                   recorderVars, storeVars, metricsVars,
                   analyticsVars>>

InitIncident ==
    /\ BreakerInit(DefaultFailureThreshold, DefaultRecoveryTimeout)
    /\ now = 0
    /\ CallersIdle({})
    /\ AgentIdle
    /\ IncidentIdle
    /\ RecorderIdle
    /\ StoreIdle
    /\ MetricsIdle
    /\ AnalyticsIdle

NextIncident ==
    \/ \E id \in IncidentIds : incident_enter(id)
    \/ \E raises \in BOOLEAN : incident_exit(raises)
    \/ Tick

SpecIncident == InitIncident /\ [][NextIncident]_vars

\* ================================================================
\* Properties of the dispatcher
\* ================================================================
Completed == {"ok", "failed"}

C1_Return ==
    (cpc # "returned" /\ cpc' = "returned" /\ log_entry')
    => \A k \in 1..MaxPending :
          tasks'[k].current => \A s \in Sinks : tasks'[k].calls[s] \notin Completed

\* C1: invoke_model_with_logging returns the response before any sink call
\* issued for that record has completed, whatever the loop of the calling
\* thread.
C1_ReturnsBeforeSinks == [][C1_Return]_vars

\* C2: a failing metrics or store sink is never surfaced: when the model call
\* succeeded the caller gets the response.
C2_SinkFailureSwallowed ==
    (cpc \in {"returned", "raised"} /\ model_error = "none")
    => (cpc = "returned" /\ outcome = "response")

\* The caller got its response although the metrics call of that record
\* failed while the store call succeeded.
C2_Witness ==
    /\ cpc = "returned"
    /\ outcome = "response"
    /\ \E k \in 1..MaxPending :
        /\ tasks[k].current
        /\ tasks[k].blocking
        /\ tasks[k].calls["metrics"] = "failed"
        /\ tasks[k].calls["store"] = "ok"

\* C3: when the model call fails the caller gets that same error, no usage
\* record exists and no sink call is issued for the invocation, also when the
\* error metric could not be emitted.
C3_ModelErrorPropagates ==
    (cpc = "raised" /\ model_error # "none")
    => /\ outcome = model_error
       /\ ~log_entry
       /\ \A k \in 1..MaxPending : ~tasks[k].current

\* The model call failed and emitting the error metric failed too.
C3_Witness ==
    /\ cpc = "raised"
    /\ model_error = "ThrottlingException"
    /\ error_metric = "failed"

C6_Finish ==
    \A k \in 1..MaxPending :
        (resilient /\ tasks[k].status # "finished" /\ tasks'[k].status = "finished")
        => \A s \in Sinks :
              (/\ SinkEnabled(s) /\ sink_up[s]
               /\ \E o \in Sinks \ {s} : SinkEnabled(o) /\ ~sink_up[o])
              => tasks'[k].calls[s] = "ok"

\* C6: the sinks are guarded independently, so a record dispatched while one
\* sink is failing still reaches the other, healthy sink.
C6_IndependentSinks == [][C6_Finish]_vars

\* C7: with the resilient dispatcher and the breaker CLOSED, a dispatched
\* record results in a call to each enabled sink.
C7_ClosedCallsThrough ==
    \A k \in 1..MaxPending :
        (resilient /\ state = "CLOSED" /\ tasks[k].status = "finished")
        => \A s \in Sinks : SinkEnabled(s) => tasks[k].calls[s] # "none"

\* C8: failure_threshold consecutive records dispatched while a sink fails
\* are counted by the breaker and drive it to OPEN.
C8_FailuresCounted ==
    (resilient /\ down_streak >= failure_threshold) => state = "OPEN"

\* C10: an id is in the active-incident registry exactly while a scope of it
\* is open: no id whose scope has exited remains, by return or by raise, and
\* with distinct ids every open scope is registered.
C10_RegistryMatchesScopes ==
    /\ DOMAIN get_active_incidents \subseteq Range(scopes)
    /\ ~reentered => Range(scopes) \subseteq DOMAIN get_active_incidents

\* An inner scope was left by an exception while the outer one stays
\* registered.
C10_Witness ==
    /\ last_exit = "raise"
    /\ Len(scopes) = 1
    /\ ~reentered
    /\ DOMAIN get_active_incidents = Range(scopes)


\* ================================================================
\* Properties of CircuitBreaker
\* ================================================================
AllIdle == \A t \in Threads : pc[t] = "idle"

C4_Opened ==
    (AllIdle /\ consecutive >= failure_threshold) => state = "OPEN"

C4_Skipped ==
    \A t \in Threads :
        (/\ pc[t] = "reset_check"
         /\ pc'[t] # "reset_check"
         /\ now - last_failure_time < recovery_timeout)
        => (pc'[t] = "idle" /\ func_calls' = func_calls)

\* C4: after failure_threshold consecutive failing calls the breaker is OPEN,
\* and a call made while OPEN before recovery_timeout has elapsed since the
\* last failure returns without running the wrapped function.
C4_OpenSkips == [](C4_Opened) /\ [][C4_Skipped]_vars

\* A breaker opened by consecutive failures, with a call skipped while open.
C4_Witness ==
    /\ AllIdle
    /\ state = "OPEN"
    /\ consecutive >= failure_threshold
    /\ started > func_calls

C5_Trial ==
    \A t \in Threads :
        /\ (/\ pc[t] = "reset_check"
            /\ pc'[t] # "reset_check"
            /\ now - last_failure_time >= recovery_timeout)
           => (state' = "HALF_OPEN" /\ pc'[t] = "invoke")
        /\ (/\ pc[t] = "invoke"
            /\ t \notin running
            /\ state = "HALF_OPEN"
            /\ <<pc[t], running>>' # <<pc[t], running>>)
           => (func_calls' = func_calls + 1 /\ t \in running')
        /\ (state = "HALF_OPEN" /\ pc[t] = "on_success" /\ pc'[t] = "idle")
           => (state' = "CLOSED" /\ failure_count' = 0)
        /\ (state = "HALF_OPEN" /\ pc[t] = "on_failure_store" /\ pc'[t] # pc[t])
           => last_failure_time' = now
        /\ (state = "HALF_OPEN" /\ pc[t] = "on_failure_trip" /\ pc'[t] = "idle")
           => state' = "OPEN"

\* C5: the first call on an OPEN breaker once recovery_timeout has elapsed
\* moves it to HALF_OPEN and runs the wrapped function as a trial; a
\* successful trial gives CLOSED with failure count 0, a failed trial gives
\* OPEN again with the recovery timer restarted at that failure.
C5_HalfOpenTrial == [][C5_Trial]_vars

\* A breaker closed again by a successful trial after a call was skipped.
C5_Witness ==
    /\ AllIdle
    /\ state = "CLOSED"
    /\ failure_count = 0
    /\ last_failure_time # None
    /\ seen[1] = "OPEN"
    /\ started > func_calls

Trials == {t \in Threads : pc[t] \in InCall /\ seen[t] \in {"OPEN", "HALF_OPEN"}}

\* C9: under concurrent callers exactly one caller runs the half-open trial
\* and no failure-count increment is lost.
C9_AtomicTransitions ==
    /\ Cardinality(Trials) <= 1
    /\ AllIdle => failure_count = counted

\* ================================================================
\* BedrockTokenLogger (token_logger.py)
\* ================================================================
\* Amounts of money are integers: prices in thousandths of a dollar per
\* million tokens, raw costs in billionths of a dollar, estimated_cost in
\* millionths of a dollar (the six decimals round() keeps).

ModelIds == {"apac.anthropic.claude-sonnet-4-20250514-v1:0", "unknown.model"}
AgentIds == {"cloud-engineer"}

\* BedrockTokenLogger.PRICING
PRICING ==
    [m \in {"apac.anthropic.claude-sonnet-4-20250514-v1:0",
            "anthropic.claude-3-5-sonnet-20241022-v2:0",
            "anthropic.claude-3-sonnet-20240229-v1:0",
            "default"} |-> [input |-> 3000, output |-> 15000]]

\* _calculate_cost, line 115: self.PRICING.get(model_id, self.PRICING["default"])
pricing_get(model_id) ==
    IF model_id \in DOMAIN PRICING THEN PRICING[model_id] ELSE PRICING["default"]

\* round(x, 6) of a cost of nano billionths of a dollar: the nearest
\* millionth, a tie going to the even one.
Round6(nano) ==
    LET q == nano \div 1000
        r == nano % 1000
    IN  IF r > 500 \/ (r = 500 /\ q % 2 = 1) THEN q + 1 ELSE q

_calculate_cost_input_only(model_id, input_tokens, output_tokens) ==
    Round6(input_tokens * pricing_get(model_id).input)

\* BedrockTokenLogger._calculate_cost
_calculate_cost(model_id, input_tokens, output_tokens) ==
    LET pricing == pricing_get(model_id)
        input_cost == input_tokens * pricing.input
        output_cost == output_tokens * pricing.output
    IN  Round6(input_cost + output_cost)

\* usage.get(key, 0) on a usage block that may lack the key (None).
usage_get(v) == IF v = None THEN 0 ELSE v

_extract_token_usage_unknown(resp) ==
    IF resp.usage # NoCounts
      THEN <<usage_get(resp.usage[1]), usage_get(resp.usage[2])>>
      ELSE IF resp.meta_usage # NoCounts
        THEN <<usage_get(resp.meta_usage[1]), usage_get(resp.meta_usage[2])>>
        ELSE <<None, None>>

\* BedrockTokenLogger._extract_token_usage: response['usage'], then
\* response['ResponseMetadata']['usage'], then zero counts; the HTTP headers
\* are not looked at and a body that can be read is not read.
_extract_token_usage(resp) ==
    IF resp.usage # NoCounts
      THEN <<usage_get(resp.usage[1]), usage_get(resp.usage[2])>>
      ELSE IF resp.meta_usage # NoCounts
        THEN <<usage_get(resp.meta_usage[1]), usage_get(resp.meta_usage[2])>>
        ELSE IF resp.body = "stream"
          THEN <<0, 0>>
          ELSE <<0, 0>>

\* datetime.utcnow().isoformat() + "Z": a timestamp every parser accepts.
utc_timestamp(clock) == [t |-> clock, valid |-> TRUE]

_create_log_entry_total_input(clock, agent_id, model_id, input_tokens, output_tokens, cost) ==
    [timestamp |-> utc_timestamp(clock), agent_id |-> agent_id, model_id |-> model_id,
     input_tokens |-> input_tokens, output_tokens |-> output_tokens,
     total_tokens |-> input_tokens, estimated_cost |-> cost]

\* BedrockTokenLogger._create_log_entry
_create_log_entry(clock, agent_id, model_id, input_tokens, output_tokens, cost) ==
    [timestamp |-> utc_timestamp(clock), agent_id |-> agent_id, model_id |-> model_id,
     input_tokens |-> input_tokens, output_tokens |-> output_tokens,
     total_tokens |-> input_tokens + output_tokens, estimated_cost |-> cost]

\* The responses a model call can return: a usage block at the top level, one
\* in ResponseMetadata, token-count HTTP headers, a readable body with or
\* without a usage block of its own.
Responses ==
    {r \in [received : {TRUE},
            usage : {NoCounts, <<1000, 500>>, <<None, 7>>},
            meta_usage : {NoCounts, <<40, 10>>},
            headers : {NoCounts, <<100, 50>>},
            body : {"absent", "stream"},
            body_usage : {NoCounts, <<100, 50>>}] :
        r.body_usage # NoCounts => r.body = "stream"}

\* invoke_with_logging, lines 185-228: the model call returns resp. The
\* caller is not inside batch_log_token_usage (bi = 0).
invoke_with_logging(model_id, agent_id, resp) ==
    /\ bi = 0
    /\ response' = resp
    /\ LET token_usage == _extract_token_usage(resp)
           estimated_cost == _calculate_cost(model_id, token_usage[1], token_usage[2])
       IN  usage_record' = _create_log_entry(now, agent_id, model_id, token_usage[1],
                                             token_usage[2], estimated_cost)
    /\ rec_outcome' = "returned"
    /\ UNCHANGED <<breakerVars, now, callerVars, agentVars, incidentVars,
                   storeVars, metricsVars,
                   analyticsVars>>

\* invoke_with_logging, lines 230-262: the model call raises and the error
\* is raised again after it was logged.
invoke_with_logging_raises ==
    /\ bi = 0
    /\ response' = NoResponse
    /\ usage_record' = NoRecord
    /\ rec_outcome' = "raised"
    /\ UNCHANGED <<breakerVars, now, callerVars, agentVars, incidentVars,
                   storeVars, metricsVars,
                   analyticsVars>>

InitRecorder ==
    /\ BreakerInit(DefaultFailureThreshold, DefaultRecoveryTimeout)
    /\ now = 0
    /\ CallersIdle({})
    /\ AgentIdle
    /\ IncidentIdle
    /\ RecorderIdle
    /\ StoreIdle
    /\ MetricsIdle
    /\ AnalyticsIdle

NextRecorder ==
    \/ \E m \in ModelIds, a \in AgentIds, r \in Responses : invoke_with_logging(m, a, r)
    \/ invoke_with_logging_raises
    \/ Tick

SpecRecorder == InitRecorder /\ [][NextRecorder]_vars

\* The pricing entry the specification resolves a model id to.
C12_Price(model_id) ==
    IF model_id \in {"apac.anthropic.claude-sonnet-4-20250514-v1:0",
                     "anthropic.claude-3-5-sonnet-20241022-v2:0",
                     "anthropic.claude-3-sonnet-20240229-v1:0"}
      THEN PRICING[model_id] ELSE PRICING["default"]

\* C12: the estimated cost of every record is the cost of its token counts
\* at the pricing entry of its model id (the default entry for a model id
\* that is not registered), rounded to six decimals: it is within half a
\* millionth of a dollar of the exact cost, and 1000 input with 500 output
\* tokens at 3.0 / 15.0 per million cost 0.0105.
C12_CostFormula ==
    rec_outcome = "returned" =>
        LET r == usage_record
            exact == r.input_tokens * C12_Price(r.model_id).input
                     + r.output_tokens * C12_Price(r.model_id).output
        IN  /\ 1000 * r.estimated_cost - exact <= 500
            /\ exact - 1000 * r.estimated_cost <= 500
            /\ (r.input_tokens = 1000 /\ r.output_tokens = 500)
               => r.estimated_cost = 10500

\* A record of 1000 / 500 tokens priced for a model id that is not registered.
C12_Witness ==
    /\ rec_outcome = "returned"
    /\ usage_record.model_id = "unknown.model"
    /\ usage_record.input_tokens = 1000
    /\ usage_record.output_tokens = 500
    /\ usage_record.estimated_cost = 10500

\* The counts the documented precedence gives: the response metadata (usage
\* block or token-count headers) first, the usage block of the body after it.
C13_Expected(resp) ==
    IF resp.usage # NoCounts THEN <<usage_get(resp.usage[1]), usage_get(resp.usage[2])>>
    ELSE IF resp.meta_usage # NoCounts
      THEN <<usage_get(resp.meta_usage[1]), usage_get(resp.meta_usage[2])>>
    ELSE IF resp.headers # NoCounts THEN resp.headers
    ELSE IF resp.body_usage # NoCounts THEN resp.body_usage
    ELSE <<0, 0>>

\* C13: the token counts of a record are those of the response metadata
\* (token-count headers included) when it carries any, and otherwise those
\* of the usage block of the response body.
C13_ExtractionPrecedence ==
    rec_outcome = "returned" =>
        <<usage_record.input_tokens, usage_record.output_tokens>> = C13_Expected(response)

C14_NoCounts(resp) ==
    /\ resp.received
    /\ resp.usage = NoCounts
    /\ resp.meta_usage = NoCounts
    /\ resp.headers = NoCounts
    /\ resp.body_usage = NoCounts

\* C14: a successful model response without token counts anywhere still
\* returns, with a record of zero input, output and total tokens and zero
\* estimated cost.
C14_MissingCountsAreZero ==
    C14_NoCounts(response) =>
        /\ rec_outcome = "returned"
        /\ usage_record.input_tokens = 0
        /\ usage_record.output_tokens = 0
        /\ usage_record.total_tokens = 0
        /\ usage_record.estimated_cost = 0

\* A returned call whose response had a readable body and no counts.
C14_Witness ==
    /\ C14_NoCounts(response)
    /\ response.body = "stream"
    /\ rec_outcome = "returned"
    /\ usage_record.timestamp.valid

\* ================================================================
\* TokenDynamoLogger (dynamo_logger.py)
\* ================================================================
\* The clock counts ticks; a day has TicksPerDay of them and the time part of
\* a key is the tick within the day.

Day(t) == t \div TicksPerDay
TimePart(t) == t % TicksPerDay

\* TokenDynamoLogger._calculate_ttl
_calculate_ttl(clock, days) == clock + days * TicksPerDay

\* TokenDynamoLogger._create_partition_key: the day of the timestamp, the day
\* of the clock when the timestamp does not parse.
_create_partition_key(timestamp, clock) ==
    IF timestamp.valid THEN Day(timestamp.t) ELSE Day(clock)

_create_sort_key_clock(timestamp, agent_id, clock) ==
    <<TimePart(clock), agent_id>>

\* TokenDynamoLogger._create_sort_key: the time of day of the timestamp and
\* the agent id, the time of the clock when the timestamp does not parse.
_create_sort_key(timestamp, agent_id, clock) ==
    <<IF timestamp.valid THEN TimePart(timestamp.t) ELSE TimePart(clock), agent_id>>

\* log_token_usage lines 141-154 / batch_log_token_usage lines 197-210: the
\* item built from a record; total_tokens is computed again, the cost copied.
store_item(record, clock, days) ==
    [date_partition |-> _create_partition_key(record.timestamp, clock),
     timestamp_agent |-> _create_sort_key(record.timestamp, record.agent_id, clock),
     timestamp |-> record.timestamp,
     agent_id |-> record.agent_id,
     model_id |-> record.model_id,
     input_tokens |-> record.input_tokens,
     output_tokens |-> record.output_tokens,
     total_tokens |-> record.input_tokens + record.output_tokens,
     estimated_cost |-> record.estimated_cost,
     ttl |-> _calculate_ttl(clock, days)]

ItemKey(item) == <<item.date_partition, item.timestamp_agent>>

\* table.put_item: an item with the same key is replaced.
put_item(tbl, item) ==
    {i \in tbl : ItemKey(i) # ItemKey(item)} \cup {item}

\* The items of a table without their expiry.
Payloads(tbl) == {[i EXCEPT !.ttl = 0] : i \in tbl}

\* A record whose timestamp string does not parse.
Unparsable(record) == [record EXCEPT !.timestamp = NoTimestamp]

\* The records a caller hands to log_token_usage: the record of the last
\* model call, as it is or with a timestamp that is not ISO 8601.
PutRecords ==
    IF rec_outcome = "returned" THEN {usage_record, Unparsable(usage_record)} ELSE {}

\* TokenDynamoLogger.log_token_usage: accepted = put_item did not raise.
log_token_usage(record, accepted) ==
    /\ bi = 0
    /\ puts < MaxPuts
    /\ puts' = puts + 1
    /\ put_result' = IF accepted THEN "true" ELSE "false"
    /\ IF accepted
         THEN /\ table' = put_item(table, store_item(record, now, ttl_days))
              /\ IF record = put_record /\ put_run >= 1
                   THEN /\ put_run' = put_run + 1
                        /\ UNCHANGED <<put_record, after_first>>
                   ELSE /\ put_run' = 1
                        /\ put_record' = record
                        /\ after_first' = Payloads(table')
         ELSE UNCHANGED <<table, put_record, put_run, after_first>>
    /\ UNCHANGED <<breakerVars, now, callerVars, agentVars, incidentVars,
                   recorderVars, ttl_days, batchVars, metricsVars,
                   analyticsVars>>

\* The k-th record of a list handed to batch_log_token_usage; its own
\* total_tokens field is not kept up to date by the caller.
BatchRecord(k) ==
    [timestamp |-> utc_timestamp(k), agent_id |-> "cloud-engineer",
     model_id |-> "unknown.model", input_tokens |-> k, output_tokens |-> 1,
     total_tokens |-> 0, estimated_cost |-> _calculate_cost("unknown.model", k, 1)]

\* Lists of n records of which at most one lacks a key the loop reads
\* (record['agent_id'] raises KeyError).
BatchLists(n) ==
    {[k \in 1..n |-> [record |-> BatchRecord(k), has_keys |-> k # bad]] : bad \in 0..n}

\* batch_log_token_usage, lines 188-193: the counters are reset and the
\* batch writer is entered.
batch_start(records) ==
    /\ bi = 0
    /\ batch_result = "none"
    /\ usage_records' = records
    /\ bi' = 1
    /\ items_buffer' = <<>>
    /\ success_count' = 0
    /\ batch_failure_count' = 0
    /\ unprocessed_items' = <<>>
    /\ written' = {}
    /\ put_run' = 0
    /\ UNCHANGED <<breakerVars, now, callerVars, agentVars, incidentVars,
                   recorderVars, table, ttl_days, put_record, after_first, puts,
                   put_result, batch_result, metricsVars,
                   analyticsVars>>

\* One turn of the loop, lines 194-219, for a record that lacks a key: the
\* inner except counts it as a failure.
batch_record_malformed ==
    /\ bi \in 1..Len(usage_records)
    /\ ~usage_records[bi].has_keys
    /\ batch_failure_count' = batch_failure_count + 1
    /\ unprocessed_items' = Append(unprocessed_items, bi)
    /\ bi' = bi + 1
    /\ UNCHANGED <<breakerVars, now, callerVars, agentVars, incidentVars,
                   recorderVars, putVars, usage_records, items_buffer, success_count,
                   written, batch_result, metricsVars,
                   analyticsVars>>

\* One turn of the loop for a well-formed record: batch.put_item buffers the
\* item; the batch writer sends the buffer with batch_write_item once it holds
\* _batch_size items, taking them out of the buffer before the call; a call
\* that raises does so inside batch.put_item, in the inner try.
batch_put_item(flush_ok) ==
    /\ bi \in 1..Len(usage_records)
    /\ usage_records[bi].has_keys
    /\ LET item == [index |-> bi,
                    item |-> store_item(usage_records[bi].record, now, ttl_days)]
           buffered == Append(items_buffer, item)
       IN  IF Len(buffered) >= _batch_size
             THEN /\ items_buffer' = <<>>
                  /\ IF flush_ok
                       THEN /\ table' = {i \in table : \A j \in 1..Len(buffered) :
                                            ItemKey(i) # ItemKey(buffered[j].item)}
                                        \cup {buffered[j].item : j \in 1..Len(buffered)}
                            /\ written' = written \cup {buffered[j].index : j \in 1..Len(buffered)}
                            /\ success_count' = success_count + 1
                            /\ UNCHANGED <<batch_failure_count, unprocessed_items>>
                       ELSE /\ batch_failure_count' = batch_failure_count + 1
                            /\ unprocessed_items' = Append(unprocessed_items, bi)
                            /\ UNCHANGED <<table, written, success_count>>
             ELSE /\ flush_ok
                  /\ items_buffer' = buffered
                  /\ success_count' = success_count + 1
                  /\ UNCHANGED <<table, written, batch_failure_count, unprocessed_items>>
    /\ bi' = bi + 1
    /\ UNCHANGED <<breakerVars, now, callerVars, agentVars, incidentVars,
                   recorderVars, ttl_days, put_record, put_run, after_first, puts,
                   put_result, usage_records, batch_result, metricsVars,
                   analyticsVars>>

\* The end of the with block, lines 221-227 and 229-235: the batch writer
\* sends what is left in its buffer; when that call raises, the outer except
\* reports every record as failed.
batch_exit(flush_ok) ==
    /\ bi = Len(usage_records) + 1
    /\ bi' = 0
    /\ batch_result' = "returned"
    /\ items_buffer' = <<>>
    /\ IF items_buffer = <<>>
         THEN /\ flush_ok
              /\ UNCHANGED <<table, written, success_count, batch_failure_count,
                             unprocessed_items>>
         ELSE IF flush_ok
           THEN /\ table' = {i \in table : \A j \in 1..Len(items_buffer) :
                                ItemKey(i) # ItemKey(items_buffer[j].item)}
                            \cup {items_buffer[j].item : j \in 1..Len(items_buffer)}
                /\ written' = written \cup {items_buffer[j].index : j \in 1..Len(items_buffer)}
                /\ UNCHANGED <<success_count, batch_failure_count, unprocessed_items>>
           ELSE /\ success_count' = 0
                /\ batch_failure_count' = Len(usage_records)
                /\ unprocessed_items' = [k \in 1..Len(usage_records) |-> k]
                /\ UNCHANGED <<table, written>>
    /\ UNCHANGED <<breakerVars, now, callerVars, agentVars, incidentVars,
                   recorderVars, ttl_days, put_record, put_run, after_first, puts,
                   put_result, usage_records, metricsVars,
                   analyticsVars>>

\* The responses the store's callers record: a usage block or none.
StoreResponses ==
    {r \in Responses : /\ r.usage \in {NoCounts, <<1000, 500>>}
                       /\ r.meta_usage = NoCounts
                       /\ r.headers = NoCounts
                       /\ r.body = "absent"}

InitStore ==
    /\ BreakerInit(DefaultFailureThreshold, DefaultRecoveryTimeout)
    /\ now = 0
    /\ CallersIdle({})
    /\ AgentIdle
    /\ IncidentIdle
    /\ RecorderIdle
    /\ \E days \in 1..MaxRetention : StoreInit(days)
    /\ MetricsIdle
    /\ AnalyticsIdle

NextStore ==
    \/ \E a \in AgentIds, r \in StoreResponses :
          invoke_with_logging("unknown.model", a, r)
    \/ \E record \in PutRecords, accepted \in BOOLEAN : log_token_usage(record, accepted)
    \/ Tick

SpecStore == InitStore /\ [][NextStore]_vars

\* Records made by the token logger, put one by one and in short lists.
NextRecords ==
    \/ \E a \in AgentIds, r \in StoreResponses :
          invoke_with_logging("unknown.model", a, r)
    \/ \E record \in PutRecords, accepted \in BOOLEAN : log_token_usage(record, accepted)
    \/ \E n \in 0..MaxSmallBatch : \E records \in BatchLists(n) : batch_start(records)
    \/ batch_record_malformed
    \/ \E flush_ok \in BOOLEAN : batch_put_item(flush_ok)
    \/ \E flush_ok \in BOOLEAN : batch_exit(flush_ok)

SpecRecords == InitStore /\ [][NextRecords]_vars

NextBatch ==
    \/ \E n \in 0..MaxRecords : \E records \in BatchLists(n) : batch_start(records)
    \/ batch_record_malformed
    \/ \E flush_ok \in BOOLEAN : batch_put_item(flush_ok)
    \/ \E flush_ok \in BOOLEAN : batch_exit(flush_ok)

SpecBatch == InitStore /\ [][NextBatch]_vars

C11_Consistent(r) ==
    /\ r.total_tokens = r.input_tokens + r.output_tokens
    /\ r.estimated_cost >= 0

C19_ItemsOf(r) ==
    {i \in table : /\ i.timestamp = r.timestamp
                   /\ i.agent_id = r.agent_id
                   /\ i.model_id = r.model_id
                   /\ i.input_tokens = r.input_tokens
                   /\ i.output_tokens = r.output_tokens
                   /\ i.estimated_cost = r.estimated_cost}

\* The table holds one item for the record sent last and, expiry apart, what
\* it held after that record was first accepted.
C19_SameAsOnce ==
    /\ Payloads(table) = after_first
    /\ Cardinality(C19_ItemsOf(put_record)) = 1

\* C19 as stated: any record accepted two or more times in a row leaves one
\* item for it, the same items as after the first time.
C19_PutIdempotent ==
    put_run >= 2 => C19_SameAsOnce

\* C19, amended: a record whose timestamp parses, accepted two or more times
\* in a row, leaves exactly one item for it, under the day and the time of
\* day of its timestamp with its agent id, and the same items (expiry apart)
\* as after the first time.
C19_PutIdempotentParsed ==
    (put_run >= 2 /\ put_record.timestamp.valid) =>
        /\ C19_SameAsOnce
        /\ \A i \in C19_ItemsOf(put_record) :
              /\ i.date_partition = Day(put_record.timestamp.t)
              /\ i.timestamp_agent = <<TimePart(put_record.timestamp.t), put_record.agent_id>>

\* A record with a good timestamp sent again at a later time: its one item
\* carries the expiry of the later write.
C19_Witness ==
    /\ put_run >= 2
    /\ put_record.timestamp.valid
    /\ \E i \in C19_ItemsOf(put_record) :
          i.ttl > _calculate_ttl(put_record.timestamp.t, ttl_days)

\* C20: a returned batch_log_token_usage reports success_count +
\* failure_count = N, its unprocessed_items are exactly the records that were
\* not written, and its successes are exactly the records written.
C20_BatchAccounting ==
    batch_result = "returned" =>
        /\ success_count + batch_failure_count = Len(usage_records)
        /\ Range(unprocessed_items) = (1..Len(usage_records)) \ written
        /\ success_count = Cardinality(written)

\* ================================================================
\* TokenMetricsLogger (cloudwatch_metrics.py)
\* ================================================================
\* The buffer is the sequence of the names of the buffered data points.

\* log_token_usage, lines 128-176: the points of one call.
usage_points(with_incident) ==
    <<"InputTokens", "OutputTokens", "TotalTokens", "EstimatedCost">>
    \o (IF with_incident THEN <<"TotalTokensPerIncident">> ELSE <<>>)

Min(a, b) == IF a < b THEN a ELSE b

flush_batches_whole(buf) ==
    <<buf>>

\* _flush_metrics, lines 81-82: the slices buf[i:i + _buffer_size] for i in
\* range(0, len(buf), _buffer_size).
flush_batches(buf) ==
    [j \in 1..((Len(buf) + _buffer_size - 1) \div _buffer_size) |->
        SubSeq(buf, (j - 1) * _buffer_size + 1, Min(j * _buffer_size, Len(buf)))]

buffer_after_failure_dropped(buf, kind) ==
    <<>>

\* _flush_metrics, lines 92-97: a ClientError leaves the buffer as it is, any
\* other exception clears it.
buffer_after_failure(buf, kind) ==
    IF kind = "client_error" THEN buf ELSE <<>>

\* The ways one _flush_metrics of buf can go: every put_metric_data accepted
\* (fail_at = 0) or the fail_at-th one raising.
FlushChoices(buf) ==
    {<<fail_at, kind>> \in (0..Len(flush_batches(buf))) \X {"client_error", "error"} :
        fail_at = 0 => kind = "error"}

\* TokenMetricsLogger._flush_metrics: the put_metric_data calls made, the
\* buffer left and how the flush ended.
_flush_metrics(buf, fail_at, kind) ==
    IF buf = <<>>
      THEN [calls |-> <<>>, buffer |-> <<>>, result |-> "none"]
      ELSE IF fail_at = 0
        THEN [calls |-> [j \in 1..Len(flush_batches(buf)) |->
                            [points |-> flush_batches(buf)[j], result |-> "ok"]],
              buffer |-> <<>>,
              result |-> "ok"]
        ELSE [calls |-> [j \in 1..fail_at |->
                            [points |-> flush_batches(buf)[j],
                             result |-> IF j = fail_at THEN kind ELSE "ok"]],
              buffer |-> buffer_after_failure(buf, kind),
              result |-> kind]

buffer_full_strict(buf) ==
    Len(buf) > _buffer_size

\* log_token_usage line 183, create_custom_metric line 286.
buffer_full(buf) ==
    Len(buf) >= _buffer_size

error_flush_due_when_full(buf) ==
    Len(buf) >= _buffer_size

\* log_error_metric, line 225: the flush does not depend on the buffer.
error_flush_due(buf) ==
    TRUE

RECURSIVE PointsOf(_)
\* The points of a sequence of put_metric_data calls, in the order sent.
PointsOf(calls) ==
    IF calls = <<>> THEN <<>>
    ELSE PointsOf(SubSeq(calls, 1, Len(calls) - 1)) \o calls[Len(calls)].points

\* The number of points in the put_metric_data calls of a flush that were
\* accepted: they are the first points of the buffer that was flushed.
accepted_points(calls) ==
    Len(PointsOf(SelectSeq(calls, LAMBDA c : c.result = "ok")))

\* An operation that appended points to the buffer and flushed it if due.
append_and_flush(op, points, due, fail_at, kind) ==
    LET buf == _metric_buffer \o points
        flush == _flush_metrics(buf, fail_at, kind)
    IN  /\ prev_buffer' = _metric_buffer
        /\ last_op' = op
        /\ IF due
             THEN /\ <<fail_at, kind>> \in FlushChoices(buf)
                  /\ _metric_buffer' = flush.buffer
                  /\ put_calls' = flush.calls
                  /\ flush_result' = flush.result
                  /\ duplicates' = Min(delivered, accepted_points(flush.calls))
                  /\ delivered' = IF flush.buffer = <<>> THEN 0
                                  ELSE IF delivered > accepted_points(flush.calls)
                                    THEN delivered
                                    ELSE accepted_points(flush.calls)
             ELSE /\ <<fail_at, kind>> = <<0, "error">>
                  /\ _metric_buffer' = buf
                  /\ put_calls' = <<>>
                  /\ flush_result' = "none"
                  /\ duplicates' = 0
                  /\ UNCHANGED delivered

\* TokenMetricsLogger.log_token_usage
metrics_log_token_usage(with_incident, fail_at, kind) ==
    /\ append_and_flush("log_token_usage", usage_points(with_incident),
                        buffer_full(_metric_buffer \o usage_points(with_incident)),
                        fail_at, kind)
    /\ UNCHANGED <<breakerVars, now, callerVars, agentVars, incidentVars,
                   recorderVars, storeVars, customs, errors,
                   analyticsVars>>

\* TokenMetricsLogger.log_error_metric
log_error_metric(fail_at, kind) ==
    /\ errors < MaxErrors
    /\ append_and_flush("log_error_metric", <<"APIErrors">>,
                        error_flush_due(_metric_buffer \o <<"APIErrors">>), fail_at, kind)
    /\ errors' = errors + 1
    /\ UNCHANGED <<breakerVars, now, callerVars, agentVars, incidentVars,
                   recorderVars, storeVars, customs,
                   analyticsVars>>

\* TokenMetricsLogger.create_custom_metric
create_custom_metric(fail_at, kind) ==
    /\ customs < MaxCustom
    /\ append_and_flush("create_custom_metric", <<"Custom">>,
                        buffer_full(_metric_buffer \o <<"Custom">>), fail_at, kind)
    /\ customs' = customs + 1
    /\ UNCHANGED <<breakerVars, now, callerVars, agentVars, incidentVars,
                   recorderVars, storeVars, errors,
                   analyticsVars>>

\* TokenMetricsLogger.flush_all_metrics
flush_all_metrics(fail_at, kind) ==
    /\ append_and_flush("flush_all_metrics", <<>>, TRUE, fail_at, kind)
    /\ UNCHANGED <<breakerVars, now, callerVars, agentVars, incidentVars,
                   recorderVars, storeVars, customs, errors,
                   analyticsVars>>

InitMetrics ==
    /\ BreakerInit(DefaultFailureThreshold, DefaultRecoveryTimeout)
    /\ now = 0
    /\ CallersIdle({})
    /\ AgentIdle
    /\ IncidentIdle
    /\ RecorderIdle
    /\ StoreIdle
    /\ MetricsIdle
    /\ AnalyticsIdle

FlushInputs == (0..2) \X {"client_error", "error"}

\* Operations are followed while the buffer holds at most MaxBuffer points.
NextMetrics ==
    \/ /\ Len(_metric_buffer) <= MaxBuffer
       /\ \E with_incident \in BOOLEAN, f \in FlushInputs :
             metrics_log_token_usage(with_incident, f[1], f[2])
    \/ /\ Len(_metric_buffer) <= MaxBuffer
       /\ \E f \in FlushInputs : log_error_metric(f[1], f[2])
    \/ /\ Len(_metric_buffer) <= MaxBuffer
       /\ \E f \in FlushInputs : create_custom_metric(f[1], f[2])
    \/ /\ Len(_metric_buffer) <= MaxBuffer
       /\ \E f \in FlushInputs : flush_all_metrics(f[1], f[2])

SpecMetrics == InitMetrics /\ [][NextMetrics]_vars

\* Calls with an incident, errors and flushes, followed while the buffer
\* holds at most MaxKept points kept by refused flushes.
NextRedelivery ==
    \/ /\ Len(_metric_buffer) <= MaxKept
       /\ \E f \in FlushInputs : metrics_log_token_usage(TRUE, f[1], f[2])
    \/ /\ Len(_metric_buffer) <= MaxKept
       /\ \E f \in FlushInputs : log_error_metric(f[1], f[2])
    \/ /\ Len(_metric_buffer) <= MaxKept
       /\ \E f \in FlushInputs : flush_all_metrics(f[1], f[2])

SpecRedelivery == InitMetrics /\ [][NextRedelivery]_vars

IsPrefix(a, b) == Len(a) <= Len(b) /\ SubSeq(b, 1, Len(a)) = a

FlushFailed == flush_result \in {"client_error", "error"}

\* C15 as stated: after a flush that failed the buffer is empty.
C15_FailedFlushDrops ==
    FlushFailed => _metric_buffer = <<>>

\* C15, amended: a flush that fails with an exception other than ClientError
\* leaves the buffer empty; a flush that fails with a ClientError leaves in
\* the buffer every point it held, those of the calls already made included.
C15_DropsUnlessClientError ==
    /\ flush_result = "error" => _metric_buffer = <<>>
    /\ flush_result = "client_error" =>
          /\ _metric_buffer # <<>>
          /\ IsPrefix(prev_buffer, _metric_buffer)
          /\ IsPrefix(PointsOf(put_calls), _metric_buffer)

\* A flush whose second put_metric_data raised a ClientError: more than a
\* batch of points is still buffered.
C15_Witness ==
    /\ flush_result = "client_error"
    /\ Len(put_calls) = 2
    /\ put_calls[1].result = "ok"
    /\ Len(_metric_buffer) > _buffer_size

\* C16: when log_token_usage or create_custom_metric returns and no
\* put_metric_data of the call was refused, fewer than 20 points are buffered.
C16_AutoFlushAtBatchSize ==
    (last_op \in {"log_token_usage", "create_custom_metric"} /\ ~FlushFailed)
        => Len(_metric_buffer) < _buffer_size

\* A log_token_usage that brought the buffer to exactly 20 points and sent
\* them.
C16_Witness ==
    /\ last_op = "log_token_usage"
    /\ flush_result = "ok"
    /\ Len(prev_buffer) = _buffer_size - 4
    /\ _metric_buffer = <<>>
    /\ Len(put_calls) = 1

\* C17: every put_metric_data call carries between 1 and 20 points, every
\* call before the last one of a flush carries 20, and the calls of a flush
\* carry the buffer in order from its first point.
C17_BatchesAtMostTwenty ==
    /\ \A j \in 1..Len(put_calls) :
          /\ Len(put_calls[j].points) >= 1
          /\ Len(put_calls[j].points) <= _buffer_size
          /\ j < Len(put_calls) => Len(put_calls[j].points) = _buffer_size
    /\ flush_result = "ok" => IsPrefix(prev_buffer, PointsOf(put_calls))
    /\ flush_result = "client_error" => IsPrefix(PointsOf(put_calls), _metric_buffer)

\* A flush of more than 20 points kept by a failed flush, sent in two calls.
C17_Witness ==
    /\ flush_result = "ok"
    /\ Len(prev_buffer) >= _buffer_size
    /\ Len(put_calls) = 2
    /\ Len(put_calls[1].points) = _buffer_size
    /\ Len(PointsOf(put_calls)) > _buffer_size

C28_NoDuplicateDelivery ==
    duplicates = 0

\* A flush that sent again the batch an earlier flush had delivered before
\* its second put_metric_data was refused.
DeliveredTwice ==
    /\ duplicates = _buffer_size
    /\ Len(prev_buffer) > _buffer_size
    /\ put_calls # <<>>
    /\ put_calls[1].result = "ok"
    /\ put_calls[1].points = SubSeq(prev_buffer, 1, _buffer_size)

\* ================================================================
\* TokenDynamoLogger.query_by_date_range (dynamo_logger.py)
\* ================================================================

\* Agent ids in the order of their strings.
AgentOrder == <<"agent-a", "cloud-engineer">>
AgentRank(a) == CHOOSE k \in 1..Len(AgentOrder) : AgentOrder[k] = a

\* The order of two sort keys "HH:MM:SS.mmm#agent_id".
SortKeyLess(k1, k2) ==
    \/ k1[1] < k2[1]
    \/ k1[1] = k2[1] /\ AgentRank(k1[2]) < AgentRank(k2[2])

RECURSIVE KeyOrdered(_)
\* The items of one partition in ascending order of the sort key, as
\* table.query returns them.
KeyOrdered(S) ==
    IF S = {} THEN <<>>
    ELSE LET first == CHOOSE i \in S : \A j \in S \ {i} :
                          SortKeyLess(i.timestamp_agent, j.timestamp_agent)
         IN  <<first>> \o KeyOrdered(S \ {first})

\* table.query(KeyConditionExpression date_partition = day, Limit = lim,
\* FilterExpression agent_id = agent_id when one is given): the first lim
\* items of the partition, of which those of the agent are returned.
table_query(tbl, day, lim, agent_id) ==
    LET found == KeyOrdered({i \in tbl : i.date_partition = day})
        page == SubSeq(found, 1, IF lim < Len(found) THEN lim ELSE Len(found))
        Wanted(i) == agent_id = "" \/ i.agent_id = agent_id
    IN  SelectSeq(page, Wanted)

RECURSIVE collect_days(_, _, _, _, _, _)
\* query_by_date_range, lines 363-383: one query per day while the end date
\* is not passed and fewer than limit items were collected.
collect_days(tbl, current_date, end_date, agent_id, limit, all_items) ==
    IF current_date <= end_date /\ Len(all_items) < limit
      THEN collect_days(tbl, current_date + 1, end_date, agent_id, limit,
                        all_items \o table_query(tbl, current_date,
                                                 limit - Len(all_items), agent_id))
      ELSE all_items

Second(t) == t \div TicksPerSecond
Fraction(t) == t % TicksPerSecond

\* The order of two timestamp strings isoformat() + "Z": isoformat leaves the
\* fraction out when the microsecond is 0, and "Z" sorts after ".".
TimestampTextLess(a, b) ==
    IF Second(a.t) # Second(b.t) THEN Second(a.t) < Second(b.t)
    ELSE IF Fraction(a.t) = 0 THEN FALSE
    ELSE Fraction(b.t) = 0 \/ Fraction(a.t) < Fraction(b.t)

RECURSIVE sort_reverse(_)
\* all_items.sort(key=lambda x: x['timestamp'], reverse=True), line 386: a
\* stable sort on the timestamp string, greatest first.
sort_reverse(items) ==
    IF items = <<>> THEN <<>>
    ELSE LET x == Head(items)
             rest == sort_reverse(Tail(items))
             before == Cardinality({j \in 1..Len(rest) :
                                      TimestampTextLess(x.timestamp, rest[j].timestamp)})
         IN  SubSeq(rest, 1, before) \o <<x>> \o SubSeq(rest, before + 1, Len(rest))

\* query_by_date_range, lines 358-388, with a store that answers.
date_range_items(tbl, start_date, end_date, agent_id, limit) ==
    LET sorted == sort_reverse(collect_days(tbl, start_date, end_date, agent_id, limit, <<>>))
    IN  SubSeq(sorted, 1, IF limit < Len(sorted) THEN limit ELSE Len(sorted))

\* TokenDynamoLogger.query_by_date_range; a query that raises gives [].
query_by_date_range(start_date, end_date, agent_id, limit, answered) ==
    /\ bi = 0
    /\ query_args' = [start |-> start_date, end |-> end_date, agent_id |-> agent_id,
                      limit |-> limit, answered |-> answered, store |-> table]
    /\ query_result' = IF answered
                         THEN date_range_items(table, start_date, end_date, agent_id, limit)
                         ELSE <<>>
    /\ UNCHANGED <<breakerVars, now, callerVars, agentVars, incidentVars,
                   recorderVars, storeVars, metricsVars, cleanupVars, configVars,
                   forecastVars, reportVars, metricThreadVars>>

\* The days the clock of the model reaches.
Days == 0..Day(MaxTime)

\* The record of a model call made now by agent a.
RecordNow(a) ==
    _create_log_entry(now, a, "unknown.model", 1000, 500,
                      _calculate_cost("unknown.model", 1000, 500))

InitQuery ==
    /\ BreakerInit(DefaultFailureThreshold, DefaultRecoveryTimeout)
    /\ now = 0
    /\ CallersIdle({})
    /\ AgentIdle
    /\ IncidentIdle
    /\ RecorderIdle
    /\ StoreInit(MaxRetention)
    /\ MetricsIdle
    /\ AnalyticsIdle

\* Records are put as time passes; one query of the store is followed.
NextQuery ==
    \/ /\ query_args = NoQuery
       /\ \E k \in 1..Len(AgentOrder) : log_token_usage(RecordNow(AgentOrder[k]), TRUE)
    \/ /\ query_args = NoQuery
       /\ \E start_date \in Days, end_date \in Days, limit \in 1..MaxLimit :
             \E agent_id \in {"", "cloud-engineer"}, answered \in BOOLEAN :
                query_by_date_range(start_date, end_date, agent_id, limit, answered)
    \/ /\ query_args = NoQuery
       /\ Tick

SpecQuery == InitQuery /\ [][NextQuery]_vars

\* The items of the queried store that the query asks for.
Asked ==
    {i \in query_args.store :
        /\ i.date_partition >= query_args.start
        /\ i.date_partition <= query_args.end
        /\ query_args.agent_id = "" \/ i.agent_id = query_args.agent_id}

InRange ==
    {i \in query_args.store :
        i.date_partition >= query_args.start /\ i.date_partition <= query_args.end}

Returned_items == {query_result[j] : j \in 1..Len(query_result)}

MostRecentFirst ==
    \A j \in 1..Len(query_result), k \in 1..Len(query_result) :
        j < k => query_result[j].timestamp.t >= query_result[k].timestamp.t

\* C21: when at most limit records of the store have a date in [start, end],
\* an answered query_by_date_range returns exactly the records asked for,
\* each once, most recent first.
C21_DateRangeComplete ==
    (query_args.answered /\ Cardinality(InRange) <= query_args.limit) =>
        /\ Returned_items = Asked
        /\ Len(query_result) = Cardinality(Asked)
        /\ MostRecentFirst

\* The part of C21 that holds: the records returned are exactly those asked
\* for.
DateRangeSetExact ==
    (query_args.answered /\ Cardinality(InRange) <= query_args.limit) =>
        /\ Returned_items = Asked
        /\ Len(query_result) = Cardinality(Asked)

\* C30: when more than limit records are asked for, an answered
\* query_by_date_range returns limit of them, most recent first, and none
\* left out is newer than one returned.
C30_LimitKeepsMostRecent ==
    (query_args.answered /\ Cardinality(Asked) > query_args.limit) =>
        /\ Len(query_result) = query_args.limit
        /\ Returned_items \subseteq Asked
        /\ MostRecentFirst
        /\ \A x \in Asked \ Returned_items, y \in Returned_items :
              x.timestamp.t <= y.timestamp.t

\* ================================================================
\* TokenDynamoLogger.cleanup_expired_data (dynamo_logger.py)
\* ================================================================

\* The keys of the items of tbl in the order of items.
RECURSIVE delete_keys(_, _)
delete_keys(tbl, keys) ==
    IF keys = <<>> THEN tbl
    ELSE delete_keys({i \in tbl : ItemKey(i) # Head(keys)}, Tail(keys))

\* The scan filter '#ttl < :current_time'.
expired(item, clock) == item.ttl < clock

RECURSIVE scan_order(_)
\* The items a scan returns, here partition by partition in key order.
scan_order(S) ==
    IF S = {} THEN <<>>
    ELSE LET day == CHOOSE d \in {i.date_partition : i \in S} :
                        \A i \in S : d <= i.date_partition
             partition == {i \in S : i.date_partition = day}
         IN  KeyOrdered(partition) \o scan_order(S \ partition)

\* cleanup_expired_data, lines 479-488: the clock is read and the table is
\* scanned for expired items, of which the keys are projected; a scan that
\* raises ends the call in the except branch.
cleanup_scan(answered) ==
    /\ bi = 0
    /\ ci = 0
    /\ cleanup_result = NoCleanup
    /\ current_time' = now
    /\ table_before' = table
    /\ deleted_count' = 0
    /\ delete_buffer' = <<>>
    /\ IF answered
         THEN /\ LET found == scan_order({i \in table : expired(i, now)})
                 IN  scan_items' = [j \in 1..Len(found) |-> ItemKey(found[j])]
              /\ ci' = 1
              /\ UNCHANGED cleanup_result
         ELSE /\ cleanup_result' = [done |-> TRUE, deleted_count |-> 0, error |-> TRUE]
              /\ UNCHANGED <<scan_items, ci>>
    /\ UNCHANGED <<breakerVars, now, callerVars, agentVars, incidentVars,
                   recorderVars, storeVars, metricsVars, queryVars, configVars,
                   forecastVars, reportVars, metricThreadVars>>

\* One turn of the loop, lines 491-499: batch.delete_item buffers the key and
\* the batch writer sends the buffer once it holds _batch_size requests,
\* taking them out of the buffer before the call; deleted_count is raised
\* after delete_item returned. A call that raises leaves the with block (the
\* buffer is empty then) and ends in the except branch, lines 508-510.
cleanup_delete_item(flush_ok) ==
    /\ ci \in 1..Len(scan_items)
    /\ LET buffered == Append(delete_buffer, scan_items[ci])
       IN  IF Len(buffered) >= _batch_size
             THEN /\ delete_buffer' = <<>>
                  /\ IF flush_ok
                       THEN /\ table' = delete_keys(table, buffered)
                            /\ deleted_count' = deleted_count + 1
                            /\ ci' = ci + 1
                            /\ UNCHANGED cleanup_result
                       ELSE /\ cleanup_result' = [done |-> TRUE, deleted_count |-> 0,
                                                  error |-> TRUE]
                            /\ ci' = 0
                            /\ UNCHANGED <<table, deleted_count>>
             ELSE /\ flush_ok
                  /\ delete_buffer' = buffered
                  /\ deleted_count' = deleted_count + 1
                  /\ ci' = ci + 1
                  /\ UNCHANGED <<table, cleanup_result>>
    /\ UNCHANGED <<breakerVars, now, callerVars, agentVars, incidentVars,
                   recorderVars, ttl_days, put_record, put_run, after_first, puts,
                   put_result, batchVars, metricsVars, queryVars, configVars, forecastVars,
                   reportVars, metricThreadVars, current_time,
                   scan_items, table_before>>

\* The end of the with block and the return, lines 491 and 501-506: the
\* batch writer sends what is left in its buffer; when that call raises the
\* except branch answers, lines 508-510.
cleanup_exit(flush_ok) ==
    /\ ci = Len(scan_items) + 1
    /\ ci' = 0
    /\ delete_buffer' = <<>>
    /\ IF delete_buffer = <<>>
         THEN /\ flush_ok
              /\ cleanup_result' = [done |-> TRUE, deleted_count |-> deleted_count,
                                    error |-> FALSE]
              /\ UNCHANGED table
         ELSE IF flush_ok
           THEN /\ table' = delete_keys(table, delete_buffer)
                /\ cleanup_result' = [done |-> TRUE, deleted_count |-> deleted_count,
                                      error |-> FALSE]
           ELSE /\ cleanup_result' = [done |-> TRUE, deleted_count |-> 0, error |-> TRUE]
                /\ UNCHANGED table
    /\ UNCHANGED <<breakerVars, now, callerVars, agentVars, incidentVars,
                   recorderVars, ttl_days, put_record, put_run, after_first, puts,
                   put_result, batchVars, metricsVars, queryVars, configVars, forecastVars,
                   reportVars, metricThreadVars, current_time,
                   scan_items, deleted_count, table_before>>

\* The lengths of the lists written before a purge: none, one batch of the
\* batch writer, more than one batch.
CleanupSizes == {0, _batch_size, MaxRecords}

\* Lists of n well-formed records.
WellFormedLists(n) == {records \in BatchLists(n) : \A k \in 1..n : records[k].has_keys}

InitCleanup ==
    /\ BreakerInit(DefaultFailureThreshold, DefaultRecoveryTimeout)
    /\ now = 0
    /\ CallersIdle({})
    /\ AgentIdle
    /\ IncidentIdle
    /\ RecorderIdle
    /\ StoreInit(1)
    /\ MetricsIdle
    /\ AnalyticsIdle

\* A list of records is written, records are put as time passes, and one
\* purge of the table is followed.
NextCleanup ==
    \/ /\ ci = 0 /\ cleanup_result = NoCleanup
       /\ \E n \in CleanupSizes : \E records \in WellFormedLists(n) : batch_start(records)
    \/ batch_put_item(TRUE)
    \/ batch_exit(TRUE)
    \/ /\ batch_result = "returned" /\ ci = 0 /\ cleanup_result = NoCleanup
       /\ log_token_usage(RecordNow("cloud-engineer"), TRUE)
    \/ /\ bi = 0 /\ ci = 0 /\ cleanup_result = NoCleanup
       /\ Tick
    \/ \E answered \in BOOLEAN : cleanup_scan(answered)
    \/ \E flush_ok \in BOOLEAN : cleanup_delete_item(flush_ok)
    \/ \E flush_ok \in BOOLEAN : cleanup_exit(flush_ok)

SpecCleanup == InitCleanup /\ [][NextCleanup]_vars

\* The part of C22 about the items: a purge removes nothing but items that
\* had expired when it read the clock and changes no item it leaves.
CleanupRemovesOnlyExpired ==
    current_time # None =>
        /\ table \subseteq table_before
        /\ \A i \in table_before : ~expired(i, current_time) => i \in table

\* C22: a finished cleanup_expired_data has removed only items whose ttl was
\* earlier than the time it read, has left every other item as it was, and
\* reports as deleted_count the number of items it removed.
C22_CleanupCountsDeleted ==
    cleanup_result.done =>
        /\ table \subseteq table_before
        /\ \A i \in table_before : ~expired(i, current_time) => i \in table
        /\ cleanup_result.deleted_count = Cardinality(table_before \ table)

\* A purge that deleted a full batch and reported that it deleted nothing.
CleanupLostCount ==
    /\ cleanup_result.done
    /\ cleanup_result.deleted_count = 0
    /\ Cardinality(table_before \ table) = _batch_size

\* A purge that left an item in place which had not expired and removed one
\* that had, reporting one deletion.
CleanupKeptFresh ==
    /\ cleanup_result.done
    /\ cleanup_result.deleted_count = 1
    /\ Cardinality(table_before \ table) = 1
    /\ \E i \in table : ~expired(i, current_time)

\* ================================================================
\* LoggingConfig (logging_config.py) and the agent built with it
\* ================================================================

\* One message when the condition holds.
error_if(condition, message) == IF condition THEN <<message>> ELSE <<>>

\* _validate_config, lines 95-140: the checks in their order, each adding
\* its message to the list errors.
config_checks(o) ==
    error_if(o.retention_days <= 0, "retention_days must be positive")
    \o error_if(o.log_retention_days <= 0, "log_retention_days must be positive")
    \o error_if(o.batch_size <= 0 \/ o.batch_size > 25, "batch_size must be between 1 and 25")
    \o error_if(o.flush_interval_seconds <= 0, "flush_interval_seconds must be positive")
    \o error_if(o.circuit_breaker_failure_threshold <= 0,
                "circuit_breaker_failure_threshold must be positive")
    \o error_if(o.circuit_breaker_recovery_timeout <= 0,
                "circuit_breaker_recovery_timeout must be positive")
    \o error_if(o.daily_cost_threshold < 0, "daily_cost_threshold must be non-negative")
    \o error_if(o.hourly_cost_threshold < 0, "hourly_cost_threshold must be non-negative")
    \o error_if(o.aws_region = "", "aws_region cannot be empty")
    \o error_if(o.dynamodb_table_name = "", "dynamodb_table_name cannot be empty")
    \o error_if(o.cloudwatch_namespace = "", "cloudwatch_namespace cannot be empty")

_validate_config_first(o) ==
    IF config_checks(o) = <<>> THEN <<>> ELSE <<Head(config_checks(o))>>

\* LoggingConfig._validate_config: the messages the ValueError joins, none
\* when the options are valid.
_validate_config(o) ==
    config_checks(o)

\* The options a caller passes: a value out of range and values in range
\* for each, the defaults among them.
ConfigOptions ==
    [retention_days : {0, MaxRetention},
     log_retention_days : {0, 30},
     batch_size : {0, 1, _batch_size, _batch_size + 1},
     flush_interval_seconds : {0, 60},
     circuit_breaker_failure_threshold : {0, MaxThreshold, DefaultFailureThreshold},
     circuit_breaker_recovery_timeout : {0, MaxTimeout, DefaultRecoveryTimeout},
     daily_cost_threshold : {-1, 0},
     hourly_cost_threshold : {-1, 0},
     aws_region : {"", "ap-southeast-2"},
     dynamodb_table_name : {"", "bedrock-token-usage"},
     cloudwatch_namespace : {"", "BedrockUsage"}]

\* LoggingConfig(**options): __post_init__ validates; a ValueError carrying
\* the joined messages leaves the caller without an object.
LoggingConfig(options) ==
    /\ config_options' = options
    /\ config_errors' = _validate_config(options)
    /\ IF _validate_config(options) = <<>>
         THEN /\ config_outcome' = "built"
              /\ config' = options
         ELSE /\ config_outcome' = "raised"
              /\ config' = NoConfig
    /\ UNCHANGED <<breakerVars, now, callerVars, agentVars, incidentVars,
                   recorderVars, storeVars, metricsVars, queryVars, cleanupVars,
                   forecastVars, reportVars, metricThreadVars, agent_config>>

\* ResilientMonitoredAgent(config=config): MonitoredBedrockAgent.__init__
\* keeps the configuration and passes retention_days to the store logger;
\* the circuit breaker is built by CircuitBreaker() without arguments.
ResilientMonitoredAgent ==
    /\ config_outcome = "built"
    /\ agent_config = NoConfig
    /\ agent_config' = config
    /\ resilient' = TRUE
    /\ ttl_days' = config.retention_days
    /\ failure_threshold' = DefaultFailureThreshold
    /\ recovery_timeout' = DefaultRecoveryTimeout
    /\ failure_count' = 0
    /\ last_failure_time' = None
    /\ state' = "CLOSED"
    /\ UNCHANGED <<now, callerVars, enabled, sink_up, cpc, loop_mode, outcome,
                   model_error, log_entry, tasks, error_metric, down_streak,
                   incidentVars, recorderVars, table, put_record, put_run,
                   after_first, puts, put_result, batchVars, metricsVars, queryVars,
                   cleanupVars, forecastVars, reportVars, metricThreadVars,
                   config_options, config_outcome, config,
                   config_errors>>

\* No agent and no configuration exist yet.
InitConfig ==
    /\ BreakerInit(None, None)
    /\ now = 0
    /\ CallersIdle({})
    /\ AgentIdle
    /\ IncidentIdle
    /\ RecorderIdle
    /\ StoreIdle
    /\ MetricsIdle
    /\ AnalyticsIdle

\* One configuration is constructed and, when it is valid, an agent is built
\* with it.
NextConfig ==
    \/ /\ config_outcome = "none"
       /\ \E options \in ConfigOptions : LoggingConfig(options)
    \/ ResilientMonitoredAgent

SpecConfig == InitConfig /\ [][NextConfig]_vars

\* The constraints the options o violate, by the message of each.
C23_Violated(o) ==
    {msg \in {"retention_days must be positive", "log_retention_days must be positive",
              "batch_size must be between 1 and 25",
              "flush_interval_seconds must be positive",
              "circuit_breaker_failure_threshold must be positive",
              "circuit_breaker_recovery_timeout must be positive",
              "daily_cost_threshold must be non-negative",
              "hourly_cost_threshold must be non-negative",
              "aws_region cannot be empty", "dynamodb_table_name cannot be empty",
              "cloudwatch_namespace cannot be empty"} :
        \/ msg = "retention_days must be positive" /\ o.retention_days < 1
        \/ msg = "log_retention_days must be positive" /\ o.log_retention_days < 1
        \/ msg = "batch_size must be between 1 and 25" /\ o.batch_size \notin 1..25
        \/ msg = "flush_interval_seconds must be positive" /\ o.flush_interval_seconds < 1
        \/ msg = "circuit_breaker_failure_threshold must be positive"
           /\ o.circuit_breaker_failure_threshold < 1
        \/ msg = "circuit_breaker_recovery_timeout must be positive"
           /\ o.circuit_breaker_recovery_timeout < 1
        \/ msg = "daily_cost_threshold must be non-negative" /\ o.daily_cost_threshold < 0
        \/ msg = "hourly_cost_threshold must be non-negative" /\ o.hourly_cost_threshold < 0
        \/ msg = "aws_region cannot be empty" /\ o.aws_region = ""
        \/ msg = "dynamodb_table_name cannot be empty" /\ o.dynamodb_table_name = ""
        \/ msg = "cloudwatch_namespace cannot be empty" /\ o.cloudwatch_namespace = ""}

\* C23: constructing a LoggingConfig whose options violate constraints
\* raises an error that lists every violated constraint, each once and no
\* other, and gives no configuration object; options that are all in range
\* give a configuration holding them.
C23_ValidationAggregates ==
    config_outcome # "none" =>
        /\ {config_errors[j] : j \in 1..Len(config_errors)} = C23_Violated(config_options)
        /\ Len(config_errors) = Cardinality(C23_Violated(config_options))
        /\ C23_Violated(config_options) # {}
           => config_outcome = "raised" /\ config = NoConfig
        /\ C23_Violated(config_options) = {}
           => config_outcome = "built" /\ config = config_options

\* A construction refused for three violated constraints, the first and the
\* last check among them.
C23_Witness ==
    /\ config_outcome = "raised"
    /\ config = NoConfig
    /\ Len(config_errors) = 3
    /\ config_errors[1] = "retention_days must be positive"
    /\ config_errors[2] = "batch_size must be between 1 and 25"
    /\ config_errors[3] = "cloudwatch_namespace cannot be empty"
    /\ config_options.batch_size = _batch_size + 1

\* C29: the circuit breaker of a ResilientMonitoredAgent has the failure
\* threshold and the recovery timeout of the LoggingConfig the agent was
\* built with.
C29_BreakerUsesConfig ==
    agent_config # NoConfig =>
        /\ failure_threshold = agent_config.circuit_breaker_failure_threshold
        /\ recovery_timeout = agent_config.circuit_breaker_recovery_timeout

\* An agent built with a configuration asking for another threshold than the
\* breaker has.
BreakerIgnoresConfig ==
    /\ agent_config # NoConfig
    /\ agent_config.circuit_breaker_failure_threshold = MaxThreshold
    /\ failure_threshold = DefaultFailureThreshold
    /\ ttl_days = agent_config.retention_days

\* ================================================================
\* CostAnalyzer.forecast_costs (cost_analyzer.py)
\* ================================================================
\* Costs are millionths of a dollar; the buckets of a trend are numbered from
\* 0 as x_values does.

RECURSIVE SumCosts(_)
SumCosts(costs) ==
    IF costs = <<>> THEN 0 ELSE Head(costs) + SumCosts(Tail(costs))

RECURSIVE SumIndexed(_, _)
\* sum of x * y over the buckets, the first having index x
SumIndexed(costs, x) ==
    IF costs = <<>> THEN 0 ELSE x * Head(costs) + SumIndexed(Tail(costs), x + 1)

\* round(num / den, 6) of a cost that is not negative: the nearest millionth,
\* a tie going to the even one.
RoundDiv(num, den) ==
    LET q == num \div den
        r == num % den
    IN  IF 2 * r > den \/ (2 * r = den /\ q % 2 = 1) THEN q + 1 ELSE q

\* Lines 415-431: the least-squares line through the costs, as the fraction
\* slope_num / slope_den; both sums of the code are multiplied by n.
regression(costs) ==
    LET n == Len(costs)
        sum_x == (n * (n - 1)) \div 2
        sum_xx == ((n - 1) * n * (2 * n - 1)) \div 6
        sum_y == SumCosts(costs)
    IN  [n |-> n, sum_x |-> sum_x, sum_y |-> sum_y,
         slope_num |-> n * SumIndexed(costs, 0) - sum_x * sum_y,
         slope_den |-> n * sum_xx - sum_x * sum_x]

\* Lines 438-444: a slope under a cent a bucket is stable.
trend_direction(fit) ==
    LET magnitude == IF fit.slope_num < 0 THEN 0 - fit.slope_num ELSE fit.slope_num
    IN  IF magnitude < 10000 * fit.slope_den THEN "stable"
        ELSE IF fit.slope_num > 0 THEN "increasing" ELSE "decreasing"

\* Lines 452-453: max(0, slope * x_forecast + intercept), rounded.
predicted_cost(fit, x_forecast) ==
    LET num == fit.slope_num * (fit.n * x_forecast - fit.sum_x) + fit.slope_den * fit.sum_y
    IN  IF num <= 0 THEN 0 ELSE RoundDiv(num, fit.n * fit.slope_den)

insufficient_history_none(history) ==
    Len(history) < 1

\* Line 409: len(trends) < 7
insufficient_history(history) ==
    Len(history) < MinBuckets

\* forecast_costs, lines 403-469: the forecast points, without the
\* confidence interval of each (a square root of the residual variance).
forecast_points(history, days) ==
    IF insufficient_history(history) THEN <<>>
    ELSE [i \in 1..days |->
            [period |-> i,
             predicted_cost |-> predicted_cost(regression(history), Len(history) + i - 1),
             trend_direction |-> trend_direction(regression(history))]]

\* CostAnalyzer.forecast_costs: get_cost_trends that raises (no store logger)
\* and every other error are answered with [], lines 471-473.
forecast_costs(days) ==
    /\ forecast_outcome = "none"
    /\ forecast_days' = days
    /\ forecast_outcome' = "returned"
    /\ forecasts' = IF trends.raised THEN <<>> ELSE forecast_points(trends.costs, days)
    /\ UNCHANGED <<breakerVars, now, callerVars, agentVars, incidentVars,
                   recorderVars, storeVars, metricsVars, queryVars, cleanupVars,
                   configVars, reportVars, metricThreadVars, trends>>

\* The daily costs of a history: no call, one call, eight calls of 1000 and
\* 500 tokens on a day.
CostLevels == {0, 10500, 84000}

\* The trends get_cost_trends returns for the historical window, one bucket
\* for each day that has records, or the error it raises.
Histories ==
    {[raised |-> TRUE, costs |-> <<>>]}
    \cup {[raised |-> FALSE, costs |-> c] :
             c \in UNION {[1..k -> CostLevels] : k \in 0..MaxBuckets}}

InitForecast ==
    /\ BreakerInit(DefaultFailureThreshold, DefaultRecoveryTimeout)
    /\ now = 0
    /\ CallersIdle({})
    /\ AgentIdle
    /\ IncidentIdle
    /\ RecorderIdle
    /\ StoreIdle
    /\ MetricsIdle
    /\ QueryIdle
    /\ CleanupIdle
    /\ ConfigIdle
    /\ ReportIdle
    /\ MetricThreadsIdle
    /\ trends \in Histories
    /\ forecast_days = 0
    /\ forecasts = <<>>
    /\ forecast_outcome = "none"

NextForecast ==
    \E days \in 1..MaxForecastDays : forecast_costs(days)

SpecForecast == InitForecast /\ [][NextForecast]_vars

\* C24: forecast_costs returns, and with fewer than 7 buckets in the history
\* it returns an empty forecast; a forecast that has points was made from 7
\* buckets or more.
C24_ShortHistoryNoForecast ==
    forecast_outcome # "none" =>
        /\ forecast_outcome = "returned"
        /\ Len(trends.costs) < 7 => forecasts = <<>>
        /\ forecasts # <<>> => ~trends.raised /\ Len(trends.costs) >= 7

\* A forecast asked of a history of six buckets with costs: nothing is
\* returned.
C24_Witness ==
    /\ forecast_outcome = "returned"
    /\ ~trends.raised
    /\ Len(trends.costs) = 6
    /\ trends.costs[6] = 84000
    /\ forecast_days = MaxForecastDays
    /\ forecasts = <<>>

\* A forecast made of seven buckets: a rising history gives a rising forecast.
ForecastMade ==
    /\ forecast_outcome = "returned"
    /\ Len(trends.costs) = 7
    /\ Len(forecasts) = forecast_days
    /\ forecasts[1].trend_direction = "increasing"
    /\ forecasts[1].predicted_cost > 84000

\* ================================================================
\* CostAnalyzer reports and threshold check (cost_analyzer.py)
\* ================================================================
\* The hour of day of a timestamp is its tick within the day.

RECURSIVE sum_of(_, _)
\* sum(r.get(field, 0) for r in records)
sum_of(records, field) ==
    IF records = <<>> THEN 0 ELSE Head(records)[field] + sum_of(Tail(records), field)

\* The records of a list whose field has the value.
with_value(records, field, value) ==
    LET Same(r) == r[field] = value
    IN  SelectSeq(records, Same)

_breakdown_by_field_last(records, field) ==
    [value \in {records[j][field] : j \in 1..Len(records)} |->
        [cost |-> sum_of(with_value(records, field, value), "estimated_cost"),
         tokens |-> with_value(records, field, value)[1].total_tokens,
         requests |-> Len(with_value(records, field, value))]]

\* CostAnalyzer._breakdown_by_field: cost, tokens and requests of each value
\* of the field.
_breakdown_by_field(records, field) ==
    [value \in {records[j][field] : j \in 1..Len(records)} |->
        [cost |-> sum_of(with_value(records, field, value), "estimated_cost"),
         tokens |-> sum_of(with_value(records, field, value), "total_tokens"),
         requests |-> Len(with_value(records, field, value))]]

\* CostAnalyzer._breakdown_by_hour: the same by the hour of the timestamp;
\* a record whose timestamp does not parse is skipped.
_breakdown_by_hour(records) ==
    LET Parsed(r) == r.timestamp.valid
        hours == [j \in 1..Len(SelectSeq(records, Parsed)) |->
                     [hour |-> TimePart(SelectSeq(records, Parsed)[j].timestamp.t),
                      estimated_cost |-> SelectSeq(records, Parsed)[j].estimated_cost,
                      total_tokens |-> SelectSeq(records, Parsed)[j].total_tokens]]
    IN  _breakdown_by_field(hours, "hour")

\* Lines 125-126 and 140-141: total / total_requests if total_requests > 0
\* else 0, rounded.
average(total, total_requests) ==
    IF total_requests > 0 THEN RoundDiv(total, total_requests) ELSE 0

\* generate_daily_cost_report, lines 108-143: the records of the date are
\* queried, filtered by agent_ids when given, summed and grouped. The
\* average of tokens is in hundredths; top_incidents is left out.
daily_cost_report(tbl, date, agent_ids) ==
    LET queried == date_range_items(tbl, date, date, "", ReportLimit)
        Wanted(r) == r.agent_id \in agent_ids
        records == IF agent_ids # {} THEN SelectSeq(queried, Wanted) ELSE queried
        total_cost == sum_of(records, "estimated_cost")
        total_tokens == sum_of(records, "total_tokens")
        total_requests == Len(records)
    IN  [total_cost |-> total_cost,
         total_tokens |-> total_tokens,
         total_requests |-> total_requests,
         average_cost_per_request |-> average(total_cost, total_requests),
         average_tokens_per_request |-> average(100 * total_tokens, total_requests),
         by_agent |-> _breakdown_by_field(records, "agent_id"),
         by_model |-> _breakdown_by_field(records, "model_id"),
         by_hour |-> _breakdown_by_hour(records)]

\* CostAnalyzer.generate_daily_cost_report
generate_daily_cost_report(date, agent_ids) ==
    /\ bi = 0
    /\ report_args' = [called |-> TRUE, date |-> date, agent_ids |-> agent_ids,
                       store |-> table]
    /\ report' = daily_cost_report(table, date, agent_ids)
    /\ UNCHANGED <<breakerVars, now, callerVars, agentVars, incidentVars,
                   recorderVars, storeVars, metricsVars, queryVars, cleanupVars,
                   configVars, forecastVars, metricThreadVars, check_result>>

\* CostAnalyzer.check_cost_thresholds: date None stands for no date given,
\* which checks today; the bucket read from by_hour is that of the hour of
\* the clock.
check_cost_thresholds(date) ==
    /\ bi = 0
    /\ LET checked == IF date = None THEN Day(now) ELSE date
           daily_report == daily_cost_report(table, checked, {})
           current_hour == TimePart(now)
           current_hour_cost == IF current_hour \in DOMAIN daily_report.by_hour
                                  THEN daily_report.by_hour[current_hour].cost ELSE 0
           daily_exceeded == daily_report.total_cost > config.daily_cost_threshold
           hourly_exceeded == current_hour_cost > config.hourly_cost_threshold
       IN  check_result' = [done |-> TRUE, date |-> checked, clock |-> now,
                            store |-> table,
                            daily_threshold_exceeded |-> daily_exceeded,
                            hourly_threshold_exceeded |-> hourly_exceeded,
                            daily_cost |-> daily_report.total_cost,
                            current_hour_cost |-> current_hour_cost,
                            alert_required |-> daily_exceeded \/ hourly_exceeded]
    /\ UNCHANGED <<breakerVars, now, callerVars, agentVars, incidentVars,
                   recorderVars, storeVars, metricsVars, queryVars, cleanupVars,
                   configVars, forecastVars, metricThreadVars, report_args, report>>

\* LoggingConfig() with the defaults of every option but the cost thresholds.
ConfigWith(daily, hourly) ==
    [retention_days |-> DefaultTtlDays, log_retention_days |-> 30,
     batch_size |-> _batch_size, flush_interval_seconds |-> 60,
     circuit_breaker_failure_threshold |-> DefaultFailureThreshold,
     circuit_breaker_recovery_timeout |-> DefaultRecoveryTimeout,
     daily_cost_threshold |-> daily, hourly_cost_threshold |-> hourly,
     aws_region |-> "ap-southeast-2", dynamodb_table_name |-> "bedrock-token-usage",
     cloudwatch_namespace |-> "BedrockUsage"]

\* The model calls that are recorded: agent, model, input tokens.
ReportCalls ==
    {<<"agent-a", "unknown.model", 2000>>, <<"cloud-engineer", "unknown.model", 1000>>,
     <<"cloud-engineer", "apac.anthropic.claude-sonnet-4-20250514-v1:0", 1000>>}

\* The record of such a call made now.
ReportRecord(call) ==
    _create_log_entry(now, call[1], call[2], call[3], 500,
                      _calculate_cost(call[2], call[3], 500))

\* The daily cost thresholds configured: the cost of one call, of two.
ThresholdLevels == {10500, 24000}

\* The hourly cost threshold configured: the cost of one call.
HourlyLevel == 10500

InitReport ==
    /\ BreakerInit(DefaultFailureThreshold, DefaultRecoveryTimeout)
    /\ now = 0
    /\ CallersIdle({})
    /\ AgentIdle
    /\ IncidentIdle
    /\ RecorderIdle
    /\ StoreInit(MaxRetention)
    /\ MetricsIdle
    /\ QueryIdle
    /\ CleanupIdle
    /\ ForecastIdle
    /\ ReportIdle
    /\ MetricThreadsIdle
    /\ \E daily \in ThresholdLevels :
          /\ config_options = ConfigWith(daily, HourlyLevel)
          /\ config = ConfigWith(daily, HourlyLevel)
    /\ config_outcome = "built"
    /\ config_errors = <<>>
    /\ agent_config = NoConfig

\* Calls are recorded as time passes; one report or one threshold check is
\* followed.
NextReport ==
    \/ /\ ~report_args.called /\ ~check_result.done
       /\ \E call \in ReportCalls : log_token_usage(ReportRecord(call), TRUE)
    \/ /\ ~report_args.called /\ ~check_result.done
       /\ Tick
    \/ /\ ~report_args.called /\ ~check_result.done
       /\ \E date \in Days, agent_ids \in {{}, {"cloud-engineer"}} :
             generate_daily_cost_report(date, agent_ids)
    \/ /\ ~report_args.called /\ ~check_result.done
       /\ \E date \in Days \cup {None} : check_cost_thresholds(date)

SpecReport == InitReport /\ [][NextReport]_vars

RECURSIVE SumOver(_, _)
\* The sum of a field over a set of items.
SumOver(S, field) ==
    IF S = {} THEN 0
    ELSE LET i == CHOOSE x \in S : TRUE IN i[field] + SumOver(S \ {i}, field)

RECURSIVE GroupSum(_, _, _)
\* The sum of a count over the groups of a breakdown.
GroupSum(breakdown, keys, count) ==
    IF keys = {} THEN 0
    ELSE LET k == CHOOSE x \in keys : TRUE
         IN  breakdown[k][count] + GroupSum(breakdown, keys \ {k}, count)

\* The items of the store a check is about: those of the checked day, and
\* those written in the hour of the check.
C25_DayItems == {i \in check_result.store : i.date_partition = check_result.date}
C25_HourItems ==
    {i \in check_result.store :
        /\ i.timestamp.valid
        /\ Day(i.timestamp.t) = Day(check_result.clock)
        /\ TimePart(i.timestamp.t) = TimePart(check_result.clock)}

\* C25: a threshold check reports the daily flag iff the total cost of the
\* checked day is above the daily limit, the hourly flag iff the total cost
\* of the current hour is above the hourly limit, and alert_required iff one
\* of the flags is set.
C25_ThresholdFlags ==
    check_result.done =>
        /\ check_result.daily_threshold_exceeded
           <=> SumOver(C25_DayItems, "estimated_cost") > config.daily_cost_threshold
        /\ check_result.hourly_threshold_exceeded
           <=> SumOver(C25_HourItems, "estimated_cost") > config.hourly_cost_threshold
        /\ check_result.alert_required
           <=> (check_result.daily_threshold_exceeded
                \/ check_result.hourly_threshold_exceeded)

\* What holds of the hourly flag: it compares the cost that the checked day
\* had in the hour of day of the clock.
HourlyFlagOfCheckedDay ==
    check_result.done =>
        /\ check_result.daily_threshold_exceeded
           <=> SumOver(C25_DayItems, "estimated_cost") > config.daily_cost_threshold
        /\ check_result.hourly_threshold_exceeded
           <=> SumOver({i \in C25_DayItems :
                           TimePart(i.timestamp.t) = TimePart(check_result.clock)},
                       "estimated_cost") > config.hourly_cost_threshold
        /\ check_result.alert_required
           <=> (check_result.daily_threshold_exceeded
                \/ check_result.hourly_threshold_exceeded)

\* The flags of a check of today agree with the claim.
TodayFlagsRight ==
    (check_result.done /\ check_result.date = Day(check_result.clock)) =>
        C25_ThresholdFlags

\* The records a report is about.
C26_Records ==
    {i \in report_args.store :
        /\ i.date_partition = report_args.date
        /\ report_args.agent_ids = {} \/ i.agent_id \in report_args.agent_ids}

\* C26: a daily report counts the records it is about in total_requests,
\* sums their tokens and costs in total_tokens and total_cost, groups them by
\* agent and by model so that the requests and tokens of the groups add up
\* to the totals, and gives averages of 0 when there is no record.
C26_ReportTotals ==
    report_args.called =>
        /\ report.total_requests = Cardinality(C26_Records)
        /\ report.total_tokens = SumOver(C26_Records, "total_tokens")
        /\ report.total_cost = SumOver(C26_Records, "estimated_cost")
        /\ \A b \in {report.by_agent, report.by_model} :
              /\ GroupSum(b, DOMAIN b, "requests") = report.total_requests
              /\ GroupSum(b, DOMAIN b, "tokens") = report.total_tokens
        /\ C26_Records = {}
           => /\ report.average_cost_per_request = 0
              /\ report.average_tokens_per_request = 0

\* A report over three records of a day, of two agents and two models.
C26_Witness ==
    /\ report_args.called
    /\ report.total_requests = 3
    /\ report.total_tokens = 5500
    /\ report.total_cost = 34500
    /\ report.average_cost_per_request = 11500
    /\ DOMAIN report.by_agent = {"agent-a", "cloud-engineer"}
    /\ Cardinality(DOMAIN report.by_model) = 2
    /\ report.by_agent["cloud-engineer"].requests = 2

\* A report over a day without records.
ReportOfNothing ==
    /\ report_args.called
    /\ report_args.store # {}
    /\ report.total_requests = 0
    /\ report.average_cost_per_request = 0

\* ================================================================
\* TokenMetricsLogger called from several threads (cloudwatch_metrics.py)
\* ================================================================
\* The executor threads of _async_cloudwatch_log and the caller's thread
\* share one logger; no lock guards _metric_buffer. A buffered point is here
\* its name with the thread and the number of the call that made it. The
\* backend accepts every put_metric_data.

MetricOps == {"log_token_usage", "log_error_metric", "flush_all_metrics"}

\* The points one call appends.
call_points(t, k, op) ==
    IF op = "log_token_usage"
      THEN [j \in 1..Len(usage_points(TRUE)) |->
               [name |-> usage_points(TRUE)[j], thread |-> t, call |-> k]]
    ELSE IF op = "log_error_metric" THEN <<[name |-> "APIErrors", thread |-> t, call |-> k]>>
    ELSE <<>>

\* log_token_usage line 180 (extend), log_error_metric line 222 (append),
\* flush_all_metrics line 293: a thread enters an operation.
metric_call(t, op) ==
    /\ mpc[t] = "idle"
    /\ mops[t] < MaxMetricOps
    /\ mops' = [mops EXCEPT ![t] = @ + 1]
    /\ _metric_buffer' = _metric_buffer \o call_points(t, mops[t] + 1, op)
    /\ appended' = appended \cup Range(call_points(t, mops[t] + 1, op))
    /\ mpc' = [mpc EXCEPT ![t] = IF op = "log_token_usage" THEN "test" ELSE "flush"]
    /\ UNCHANGED <<breakerVars, now, callerVars, agentVars, incidentVars,
                   recorderVars, storeVars, prev_buffer, put_calls, flush_result,
                   last_op, customs, errors, delivered, duplicates, queryVars,
                   cleanupVars, configVars, forecastVars, reportVars, mloop, sent>>

\* log_token_usage lines 183-184: if len(self._metric_buffer) >=
\* self._buffer_size, flush.
metric_buffer_test(t) ==
    /\ mpc[t] = "test"
    /\ mpc' = [mpc EXCEPT ![t] = IF buffer_full(_metric_buffer) THEN "flush" ELSE "idle"]
    /\ UNCHANGED <<breakerVars, now, callerVars, agentVars, incidentVars,
                   recorderVars, storeVars, metricsVars, queryVars, cleanupVars,
                   configVars, forecastVars, reportVars, mops, mloop, appended, sent>>

\* _flush_metrics lines 76-81: nothing to do for an empty buffer; otherwise
\* range(0, len(self._metric_buffer), self._buffer_size) is built.
flush_enter(t) ==
    /\ mpc[t] = "flush"
    /\ IF _metric_buffer = <<>>
         THEN /\ mpc' = [mpc EXCEPT ![t] = "idle"]
              /\ UNCHANGED mloop
         ELSE /\ mpc' = [mpc EXCEPT ![t] = "loop"]
              /\ mloop' = [mloop EXCEPT ![t] = [n |-> Len(_metric_buffer), i |-> 0]]
    /\ UNCHANGED <<breakerVars, now, callerVars, agentVars, incidentVars,
                   recorderVars, storeVars, metricsVars, queryVars, cleanupVars,
                   configVars, forecastVars, reportVars, mops, appended, sent>>

\* _flush_metrics lines 82-87: one turn of the loop slices the buffer as it
\* is now and passes the slice to put_metric_data.
flush_put(t) ==
    /\ mpc[t] = "loop"
    /\ mloop[t].i < mloop[t].n
    /\ sent' = sent \cup Range(SubSeq(_metric_buffer, mloop[t].i + 1,
                                      Min(mloop[t].i + _buffer_size, Len(_metric_buffer))))
    /\ mloop' = [mloop EXCEPT ![t].i = @ + _buffer_size]
    /\ UNCHANGED <<breakerVars, now, callerVars, agentVars, incidentVars,
                   recorderVars, storeVars, metricsVars, queryVars, cleanupVars,
                   configVars, forecastVars, reportVars, mpc, mops, appended>>

\* _flush_metrics lines 89-90: after the loop the buffer is cleared.
flush_clear(t) ==
    /\ mpc[t] = "loop"
    /\ mloop[t].i >= mloop[t].n
    /\ _metric_buffer' = <<>>
    /\ mpc' = [mpc EXCEPT ![t] = "idle"]
    /\ UNCHANGED <<breakerVars, now, callerVars, agentVars, incidentVars,
                   recorderVars, storeVars, prev_buffer, put_calls, flush_result,
                   last_op, customs, errors, delivered, duplicates, queryVars,
                   cleanupVars, configVars, forecastVars, reportVars, mops, mloop,
                   appended, sent>>

NextMetricThreads ==
    \/ \E t \in Threads, op \in MetricOps : metric_call(t, op)
    \/ \E t \in Threads : metric_buffer_test(t)
    \/ \E t \in Threads : flush_enter(t)
    \/ \E t \in Threads : flush_put(t)
    \/ \E t \in Threads : flush_clear(t)

SpecMetricThreads == InitMetrics /\ [][NextMetricThreads]_vars

\* C27: once every call on the logger has returned, each point that was
\* appended to the buffer is still in the buffer or was passed to
\* put_metric_data.
C27_NoPointLost ==
    (\A t \in Threads : mpc[t] = "idle") =>
        appended \subseteq (Range(_metric_buffer) \cup sent)

\* Two calls have returned and the points of a log_token_usage are neither
\* buffered nor sent.
PointsLost ==
    /\ \A t \in Threads : mpc[t] = "idle" /\ mops[t] = 1
    /\ _metric_buffer = <<>>
    /\ \E p \in appended : p.name = "InputTokens" /\ p \notin sent

\* With one thread no point is lost.
C27_Alone ==
    (mops[2] = 0 /\ mpc[1] = "idle") => appended \subseteq (Range(_metric_buffer) \cup sent)

====
